---- MODULE Spec2Model ----
(***************************************************************************)
(* GRoller: the XGC -> G-code transpiler (src/transpiler/xgc_to_py.py and  *)
(* src/transpiler/py_execute.py) and the host's error report               *)
(* (src/app.py, MainApp._compile).                                         *)
(*                                                                         *)
(* Text is modelled as what it is: a sequence of one-character strings.    *)
(* A script, a line, a token, the compiled output are all such sequences.  *)
(* The intermediate Python program is kept as the sequence of its source   *)
(* lines, each line the sequence of the pieces the translator's string     *)
(* formatting put together (literal text and generated calls).             *)
(***************************************************************************)
EXTENDS Integers, Sequences, FiniteSets, TLC

(***************************************************************************)
(* Characters and the string methods the transpiler uses.                  *)
(***************************************************************************)
NL == "\n"

Lower == {"a", "b", "c", "d", "e", "f", "g", "h", "i", "j", "k", "l", "m",
          "n", "o", "p", "q", "r", "s", "t", "u", "v", "w", "x", "y", "z"}

Upper == {"A", "B", "C", "D", "E", "F", "G", "H", "I", "J", "K", "L", "M",
          "N", "O", "P", "Q", "R", "S", "T", "U", "V", "W", "X", "Y", "Z"}

Digit == {"0", "1", "2", "3", "4", "5", "6", "7", "8", "9"}

\* [ \t] of the comment pattern; what str.strip() and str.split() remove
\* inside one line.
IsSpace(c) == c \in {" ", "\t"}

\* The index of the first character of s from index i on that is in set
\* cs, 0 if none.
FindFrom(s, cs, i) ==
    IF \E k \in i..Len(s) : s[k] \in cs
    THEN CHOOSE k \in i..Len(s) : s[k] \in cs /\ \A j \in i..(k - 1) : s[j] \notin cs
    ELSE 0

Find(s, cs) == FindFrom(s, cs, 1)

\* str.lstrip()
lstrip(s) ==
    IF \A k \in 1..Len(s) : IsSpace(s[k]) THEN <<>>
    ELSE SubSeq(s, CHOOSE k \in 1..Len(s) :
                       ~IsSpace(s[k]) /\ \A j \in 1..(k - 1) : IsSpace(s[j]),
                Len(s))

\* str.rstrip()
rstrip(s) ==
    IF \A k \in 1..Len(s) : IsSpace(s[k]) THEN <<>>
    ELSE SubSeq(s, 1, CHOOSE k \in 1..Len(s) :
                          ~IsSpace(s[k]) /\ \A j \in (k + 1)..Len(s) : IsSpace(s[j]))

\* str.strip()
strip(s) == rstrip(lstrip(s))

\* The leading whitespace of a line (what lstrip removes).
LeadingSpace(s) == SubSeq(s, 1, Len(s) - Len(lstrip(s)))

\* The k-th smallest element of a set of numbers.
Nth(S, k) == CHOOSE i \in S : Cardinality({j \in S : j < i}) = k - 1

\* The pieces of s between the indices in cuts, which hold 0 and Len(s) + 1.
Between(s, cuts) ==
    [k \in 1..(Cardinality(cuts) - 1) |->
        SubSeq(s, Nth(cuts, k) + 1, Nth(cuts, k + 1) - 1)]

\* str.split(sep) for a one-character sep: every piece, empty ones included.
SplitOn(s, sep) ==
    Between(s, {0, Len(s) + 1} \cup {i \in 1..Len(s) : s[i] = sep})

\* The pieces without a last empty one.
DropLastEmpty(ps) ==
    IF ps[Len(ps)] = <<>> THEN SubSeq(ps, 1, Len(ps) - 1) ELSE ps

\* str.splitlines(): the pieces between newlines; a final newline ends the
\* last line and opens no empty one, and the empty text has no line.
splitlines(text) == DropLastEmpty(SplitOn(text, NL))

\* sep.join(parts)
RECURSIVE join(_, _)
join(sep, parts) ==
    IF parts = <<>> THEN <<>>
    ELSE IF Len(parts) = 1 THEN parts[1]
    ELSE parts[1] \o sep \o join(sep, Tail(parts))

\* str.split(): the maximal runs of non-whitespace characters.
RECURSIVE split(_)
split(s) ==
    LET t == lstrip(s)
        i == Find(t, {" ", "\t"})
    IN  IF t = <<>> THEN <<>>
        ELSE IF i = 0 THEN <<t>>
        ELSE <<SubSeq(t, 1, i - 1)>> \o split(SubSeq(t, i, Len(t)))

\* str.replace(c, ""): s without its characters in cs.
Remove(s, cs) == SelectSeq(s, LAMBDA c : c \notin cs)

\* The elements of a sequence.
Range(s) == {s[i] : i \in 1..Len(s)}

(***************************************************************************)
(* Normalizer.                                                             *)
(***************************************************************************)
\* re.sub(r"[ \t]*;.*", "", line) on one line: the leftmost match starts at
\* the whitespace run that ends at the first ';' and runs to the line end.
StripComment(line) ==
    LET i == Find(line, {";"})
    IN  IF i = 0 THEN line ELSE rstrip(SubSeq(line, 1, i - 1))

\* re.sub(r"[ \t]*;.*", "", xgc_script): '.' stops at the newline, so the
\* substitution acts in each line.
Uncommented(lines) == [i \in 1..Len(lines) |-> StripComment(lines[i])]

\* The lines that hold a character other than whitespace.
NonBlank(lines) == SelectSeq(lines, LAMBDA line : strip(line) # <<>>)

xgc_strip(xgc_script) ==
    Remove(join(<<NL>>,
                NonBlank(splitlines(join(<<NL>>,
                    Uncommented(SplitOn(xgc_script, NL)))))),
           {"[", "]"})

(***************************************************************************)
(* The intermediate Python program.  A source line is the sequence of the  *)
(* pieces the translator put together: literal text, and calls             *)
(* name(K=value, ...) or name(True) built by its format strings.           *)
(***************************************************************************)
Text(chars) == [t |-> "text", text |-> chars, fn |-> <<>>, kw |-> <<>>, pos |-> <<>>]

Call(fn, kw, pos) == [t |-> "call", text |-> <<>>, fn |-> fn, kw |-> kw, pos |-> pos]

KwArg(k, v) == [k |-> k, v |-> v]

\* An exception: its class, its message args[0], and the "Line n: " prefixes
\* put in front of the message, outermost first.
\* names holds the parameter letters or the name the message shows.
ErrN(type, msg, names) == [type |-> type, tags |-> <<>>, msg |-> msg, names |-> names]

Err(type, msg) == ErrN(type, msg, {})

NoErr == Err("", "")

(***************************************************************************)
(* Line Classifier & Translator.                                           *)
(***************************************************************************)
paramaterless_commands ==
    { <<"G", "1", "5">>, <<"G", "1", "7">>, <<"G", "1", "8">>,
      <<"G", "1", "9">>, <<"G", "2", "0">>, <<"G", "2", "1">>,
      <<"G", "9", "0">>, <<"G", "9", "1">>, <<"G", "9", "3">>,
      <<"G", "9", "4">>, <<"M", "0", "5">>, <<"M", "3", "0">> }

\* A Python identifier: a letter or '_' first, then letters, digits, '_'.
IsIdentifier(tok) ==
    /\ tok # <<>>
    /\ tok[1] \in Lower \cup Upper \cup {"_"}
    /\ \A i \in 1..Len(tok) : tok[i] \in Lower \cup Upper \cup Digit \cup {"_"}

\* A number literal: digits, at most one '.', a digit on one side of it; an
\* integer literal has no leading zero unless it is all zeros.
IsNumber(tok) ==
    /\ tok # <<>>
    /\ \A i \in 1..Len(tok) : tok[i] \in Digit \cup {"."}
    /\ Cardinality({i \in 1..Len(tok) : tok[i] = "."}) <= 1
    /\ \E i \in 1..Len(tok) : tok[i] \in Digit
    /\ (tok[1] = "0" /\ Len(tok) > 1 /\ \A i \in 1..Len(tok) : tok[i] # ".")
          => \A i \in 1..Len(tok) : tok[i] = "0"

\* A signed number literal (unary minus applied to a literal).
IsSignedNumber(tok) ==
    \/ IsNumber(tok)
    \/ tok # <<>> /\ tok[1] = "-" /\ IsNumber(Tail(tok))

\* name(True) / name(False): a call with one boolean argument, as text.
IsBoolCall(tok) ==
    LET i == Find(tok, {"("})
    IN  /\ i > 1
        /\ IsIdentifier(SubSeq(tok, 1, i - 1))
        /\ SubSeq(tok, i, Len(tok)) \in
              { <<"(", "T", "r", "u", "e", ")">>,
                <<"(", "F", "a", "l", "s", "e", ")">> }

\* The argument values of the scripts modelled here: a signed number or a
\* name.
IsArgExpression(tok) == IsSignedNumber(tok) \/ IsIdentifier(tok)

\* The expressions of the scripts modelled here: a signed number, a name, a
\* call with one boolean argument.
IsExpression(tok) == IsArgExpression(tok) \/ IsBoolCall(tok)

\* ast.parse(s) is one Assign whose targets are all Names, for assignments
\* written with blanks around '=': name = ... = expression.
_is_variable_declaration(s) ==
    LET toks == split(s)
        n    == Len(toks)
    IN  /\ n >= 3
        /\ n % 2 = 1
        /\ \A i \in 1..n : (i % 2 = 0) => toks[i] = <<"=">>
        /\ \A i \in 1..(n - 1) : (i % 2 = 1) => IsIdentifier(toks[i])
        /\ IsExpression(toks[n])

\* One token under a pattern L([^\s]+) with L among the letters ls: the
\* leftmost letter of ls that has at least one character after it, 0 if none.
RECURSIVE KeyAtFrom(_, _, _)
KeyAtFrom(tok, ls, i) ==
    IF i >= Len(tok) THEN 0
    ELSE IF tok[i] \in ls THEN i
    ELSE KeyAtFrom(tok, ls, i + 1)

KeyAt(tok, ls) == KeyAtFrom(tok, ls, 1)

\* The text of line cut into its tokens and the whitespace runs around them:
\* <<ws, token, ws, token, ..., ws>> (the runs may be empty at the ends).
RECURSIVE Pieces(_)
Pieces(s) ==
    LET ws == LeadingSpace(s)
        t  == lstrip(s)
        i  == Find(t, {" ", "\t"})
    IN  IF t = <<>> THEN <<ws>>
        ELSE IF i = 0 THEN <<ws, t, <<>> >>
        ELSE <<ws, SubSeq(t, 1, i - 1)>> \o Pieces(SubSeq(t, i, Len(t)))

\* Literal text as a piece of a source line, nothing when it is empty.
Lit(chars) == IF chars = <<>> THEN <<>> ELSE <<Text(chars)>>

\* re.sub(r"X([^\s]+)\s+Y([^\s]+)", r"canned_cycle(X=\1, Y=\2)", line) over
\* the pieces ps from piece i on.  A match starts at the leftmost X of a
\* token that has a character after it, takes the rest of that token, the
\* whitespace run, and the whole next token, which must start with Y and
\* have a character after it.
RECURSIVE SubXY(_, _)

\* The substitution that matches the line and generates no call for it.
SubXYNothing(ps, i) == <<>>

SubXY(ps, i) ==
    IF i > Len(ps) THEN <<>>
    ELSE IF i % 2 = 1 THEN Lit(ps[i]) \o SubXY(ps, i + 1)
    ELSE
        LET tok == ps[i]
            p   == KeyAt(tok, {"X"})
            hit == /\ p > 0
                   /\ i + 2 <= Len(ps)
                   /\ ps[i + 1] # <<>>
                   /\ Len(ps[i + 2]) >= 2
                   /\ ps[i + 2][1] = "Y"
        IN  IF hit
            THEN Lit(SubSeq(tok, 1, p - 1))
                 \o << Call(<<"c","a","n","n","e","d","_","c","y","c","l","e">>,
                            << KwArg("X", SubSeq(tok, p + 1, Len(tok))),
                               KwArg("Y", Tail(ps[i + 2])) >>, <<>>) >>
                 \o SubXY(ps, i + 3)
            ELSE Lit(tok) \o SubXY(ps, i + 1)

\* re.sub(r"X([^\s]+)", r"canned_cycle(X=\1)", line), and the same for Y.
RECURSIVE SubOne(_, _, _)
SubOne(ps, i, axis) ==
    IF i > Len(ps) THEN <<>>
    ELSE IF i % 2 = 1 THEN Lit(ps[i]) \o SubOne(ps, i + 1, axis)
    ELSE
        LET tok == ps[i]
            p   == KeyAt(tok, {axis})
        IN  IF p > 0
            THEN Lit(SubSeq(tok, 1, p - 1))
                 \o << Call(<<"c","a","n","n","e","d","_","c","y","c","l","e">>,
                            << KwArg(axis, SubSeq(tok, p + 1, Len(tok))) >>,
                            <<>>) >>
                 \o SubOne(ps, i + 1, axis)
            ELSE Lit(tok) \o SubOne(ps, i + 1, axis)

\* re.findall(r"([A-Z])([^\s]+)", param_str) over the tokens of param_str:
\* in each token the leftmost capital that has a character after it, and the
\* rest of the token; a token with no such capital yields nothing.
RECURSIVE FindParams(_)
FindParams(toks) ==
    IF toks = <<>> THEN <<>>
    ELSE LET tok == Head(toks)
             p   == KeyAt(tok, Upper)
         IN  (IF p > 0
              THEN << KwArg(tok[p], SubSeq(tok, p + 1, Len(tok))) >>
              ELSE <<>>)
             \o FindParams(Tail(toks))

\* The result of a step that may raise: ok with a value, or an exception.
Ok(v) == [ok |-> TRUE, val |-> v, err |-> NoErr]

Raise(e) == [ok |-> FALSE, val |-> <<>>, err |-> e]

_xgc_line_to_func(xgc_line) ==
    LET g             == Find(xgc_line, {"G", "M"})
        leading_space == IF g = 0 THEN xgc_line ELSE SubSeq(xgc_line, 1, g - 1)
        toks          == split(xgc_line)
    IN  IF Len(toks) < 2
        THEN Raise(Err("ValueError", "not enough values to unpack"))
        ELSE Ok(Lit(leading_space)
                \o << Call(toks[1], FindParams(Tail(toks)), <<>>) >>)

\* The calls with True for every token.
ParameterlessCallsAllEnd(tokens) ==
    [i \in 1..Len(tokens) |-> << Call(tokens[i], <<>>, << <<"T", "r", "u", "e">> >>) >>]

\* The calls of a parameterless command line: one source line per token,
\* False for every token but the last, True for the last.
ParameterlessCalls(tokens) ==
    [i \in 1..Len(tokens) |->
        << Call(tokens[i], <<>>,
                << IF i = Len(tokens) THEN <<"T", "r", "u", "e">>
                   ELSE <<"F", "a", "l", "s", "e">> >>) >>]

\* The body of the translator's loop for one line: the source lines it
\* appends to python_code, or the exception it raises.
TranslateLine(line) ==
    LET stripped_line == strip(line)
        tokens        == split(stripped_line)
        keys          == {tokens[i][1] : i \in 1..Len(tokens)}
    IN  IF stripped_line = <<>>
        THEN Raise(Err("IndexError", "string index out of range"))
        ELSE IF stripped_line[1] \in Lower
                \/ _is_variable_declaration(stripped_line)
        THEN Ok(<< <<Text(line)>> >>)
        ELSE IF keys = {"X", "Y"} THEN Ok(<< SubXY(Pieces(line), 1) >>)
        ELSE IF keys = {"X"} THEN Ok(<< SubOne(Pieces(line), 1, "X") >>)
        ELSE IF keys = {"Y"} THEN Ok(<< SubOne(Pieces(line), 1, "Y") >>)
        ELSE IF Range(tokens) \subseteq paramaterless_commands
        THEN Ok(ParameterlessCalls(tokens))
        ELSE LET r == _xgc_line_to_func(line)
             IN  IF r.ok THEN Ok(<<r.val>>) ELSE r

\* The prefix put in front of the message twice.
AttachLineTwice(e, line_no) == [e EXCEPT !.tags = <<line_no, line_no>> \o @]

\* except Exception as e: e.args = (f"Line {line_no}: {e.args[0]}",); raise
AttachLine(e, line_no) == [e EXCEPT !.tags = <<line_no>> \o @]

\* The translator's loop from line line_no + 1 on, python_code so far.
RECURSIVE TranslateFrom(_, _, _)
TranslateFrom(lines, line_no, python_code) ==
    IF line_no >= Len(lines) THEN Ok(python_code)
    ELSE LET r == TranslateLine(lines[line_no + 1])
         IN  IF r.ok
             THEN TranslateFrom(lines, line_no + 1, python_code \o r.val)
             ELSE Raise(AttachLine(r.err, line_no + 1))

xgc_to_python(xgc_script) == TranslateFrom(splitlines(xgc_script), 0, <<>>)

(***************************************************************************)
(* Python values.  A number is kept in thousandths (m), with its type; a   *)
(* float may carry a residue far below a thousandth (tiny), counted in     *)
(* units of 6.123233995736766e-17, which is what                           *)
(* math.cos(math.radians(90)) returns instead of 0.                        *)
(***************************************************************************)
IntVal(n) == [ty |-> "int", m |-> n * 1000, tiny |-> 0, f |-> <<>>]

FloatVal(m) == [ty |-> "float", m |-> m, tiny |-> 0, f |-> <<>>]

TinyVal(m, tiny) == [ty |-> "float", m |-> m, tiny |-> tiny, f |-> <<>>]

BoolVal(b) == [ty |-> "bool", m |-> IF b THEN 1000 ELSE 0, tiny |-> 0, f |-> <<>>]

NoneVal == [ty |-> "none", m |-> 0, tiny |-> 0, f |-> <<>>]

\* A function object, named by the def it comes from.
FuncVal(f) == [ty |-> "func", m |-> 0, tiny |-> 0, f |-> f]

IsNumeric(v) == v.ty \in {"int", "float", "bool"}

DigitOf(c) ==
    CASE c = "0" -> 0 [] c = "1" -> 1 [] c = "2" -> 2 [] c = "3" -> 3
      [] c = "4" -> 4 [] c = "5" -> 5 [] c = "6" -> 6 [] c = "7" -> 7
      [] c = "8" -> 8 [] c = "9" -> 9

DigitChar(d) ==
    CASE d = 0 -> "0" [] d = 1 -> "1" [] d = 2 -> "2" [] d = 3 -> "3"
      [] d = 4 -> "4" [] d = 5 -> "5" [] d = 6 -> "6" [] d = 7 -> "7"
      [] d = 8 -> "8" [] d = 9 -> "9"

\* The value of a run of digits.
RECURSIVE DigitsVal(_)
DigitsVal(ds) ==
    IF ds = <<>> THEN 0
    ELSE 10 * DigitsVal(SubSeq(ds, 1, Len(ds) - 1)) + DigitOf(ds[Len(ds)])

\* The decimal digits of a natural number.
RECURSIVE NatStr(_)
NatStr(n) ==
    IF n < 10 THEN <<DigitChar(n)>>
    ELSE NatStr(n \div 10) \o <<DigitChar(n % 10)>>

\* The thousandths a fraction's digits stand for (its first three digits).
FracVal(ds) ==
    LET d(i) == IF i <= Len(ds) THEN DigitOf(ds[i]) ELSE 0
    IN  100 * d(1) + 10 * d(2) + d(3)

\* The thousandths of an unsigned number literal.
UnsignedVal(tok) ==
    LET dot == Find(tok, {"."})
    IN  IF dot = 0 THEN 1000 * DigitsVal(tok)
        ELSE 1000 * DigitsVal(SubSeq(tok, 1, dot - 1))
             + FracVal(SubSeq(tok, dot + 1, Len(tok)))

\* The value of a signed number literal: an int without '.', else a float.
ParseNumber(tok) ==
    LET neg  == tok[1] = "-"
        body == IF neg THEN Tail(tok) ELSE tok
        mag  == UnsignedVal(body)
    IN  [ty |-> IF Find(body, {"."}) = 0 THEN "int" ELSE "float",
         m |-> IF neg THEN 0 - mag ELSE mag, tiny |-> 0, f |-> <<>>]

\* The fraction digits of thousandths t (0..999) without trailing zeros, at
\* least one digit.
FracStr(t) ==
    IF t % 100 = 0 THEN <<DigitChar(t \div 100)>>
    ELSE IF t % 10 = 0 THEN <<DigitChar(t \div 100), DigitChar((t \div 10) % 10)>>
    ELSE <<DigitChar(t \div 100), DigitChar((t \div 10) % 10), DigitChar(t % 10)>>

Abs(n) == IF n < 0 THEN 0 - n ELSE n

Sign(n) == IF n < 0 THEN 0 - 1 ELSE IF n > 0 THEN 1 ELSE 0

\* repr of the float k * 6.123233995736766e-17 for the multiples k that the
\* quadrant points give a radius of 1 or 10.
ResidueText(k) ==
    CASE k = 1  -> <<"6", ".", "1", "2", "3", "2", "3", "3", "9", "9", "5", "7", "3", "6", "7", "6", "6", "e", "-", "1", "7">>
      [] k = 2  -> <<"1", ".", "2", "2", "4", "6", "4", "6", "7", "9", "9", "1", "4", "7", "3", "5", "3", "2", "e", "-", "1", "6">>
      [] k = 3  -> <<"1", ".", "8", "3", "6", "9", "7", "0", "1", "9", "8", "7", "2", "1", "0", "2", "9", "7", "e", "-", "1", "6">>
      [] k = 4  -> <<"2", ".", "4", "4", "9", "2", "9", "3", "5", "9", "8", "2", "9", "4", "7", "0", "6", "4", "e", "-", "1", "6">>
      [] k = 10 -> <<"6", ".", "1", "2", "3", "2", "3", "3", "9", "9", "5", "7", "3", "6", "7", "6", "6", "e", "-", "1", "6">>
      [] k = 20 -> <<"1", ".", "2", "2", "4", "6", "4", "6", "7", "9", "9", "1", "4", "7", "3", "5", "3", "3", "e", "-", "1", "5">>

\* str(v), as f"{k}{v}" formats a value: an int in decimal digits, a float
\* with its fraction; a float that is only a residue in exponent notation.
Str(v) ==
    CASE v.ty = "int" ->
            (IF v.m < 0 THEN <<"-">> ELSE <<>>) \o NatStr(Abs(v.m) \div 1000)
      [] v.ty = "bool" ->
            (IF v.m = 0 THEN <<"F", "a", "l", "s", "e">> ELSE <<"T", "r", "u", "e">>)
      [] v.ty = "none" -> <<"N", "o", "n", "e">>
      [] v.ty = "float" /\ v.m = 0 /\ v.tiny # 0 ->
            (IF v.tiny < 0 THEN <<"-">> ELSE <<>>) \o ResidueText(Abs(v.tiny))
      [] v.ty = "float" /\ v.tiny = 0 ->
            (IF v.m < 0 THEN <<"-">> ELSE <<>>)
            \o NatStr(Abs(v.m) \div 1000) \o <<".">> \o FracStr(Abs(v.m) % 1000)

\* The largest power of two that is at most n (n >= 1).
RECURSIVE Pow2Floor(_)
Pow2Floor(n) == IF n < 2 THEN 1 ELSE 2 * Pow2Floor(n \div 2)

\* Whether the float sum of a value of m thousandths and a residue of t
\* units is the value itself: the residue is less than half the spacing of
\* the floats at the value, on the side the residue points to.  Half the
\* spacing at 1.0 is 2^-53, which is 1.8131 units; towards zero from a power
\* of two it is half of that.  Below 1 no residue is absorbed.
Absorbed(m, t) ==
    \/ t = 0
    \/ /\ Abs(m) >= 1000
       /\ IF Sign(t) # Sign(m) /\ Abs(m) = 1000 * Pow2Floor(Abs(m) \div 1000)
          THEN (20000 * Abs(t)) \div 18131 < Pow2Floor(Abs(m) \div 1000)
          ELSE (10000 * Abs(t)) \div 18131 < Pow2Floor(Abs(m) \div 1000)

\* math.cos(math.radians(theta)) and math.sin(math.radians(theta)) for theta
\* a multiple of 90 degrees from 0 to 360: the exact results 1, -1 and 0.0,
\* and the residues the floating-point results at the other quadrant points
\* are (cos 90 is 6.123233995736766e-17, sin 180 twice, cos 270 minus three
\* times and sin 360 minus four times that).
Quadrant(theta) == theta.m \div 90000

CosDeg(theta) ==
    CASE Quadrant(theta) = 0 -> TinyVal(1000, 0)
      [] Quadrant(theta) = 1 -> TinyVal(0, 1)
      [] Quadrant(theta) = 2 -> TinyVal(0 - 1000, 0)
      [] Quadrant(theta) = 3 -> TinyVal(0, 0 - 3)
      [] Quadrant(theta) = 4 -> TinyVal(1000, 0)

SinDeg(theta) ==
    CASE Quadrant(theta) = 0 -> TinyVal(0, 0)
      [] Quadrant(theta) = 1 -> TinyVal(1000, 0)
      [] Quadrant(theta) = 2 -> TinyVal(0, 2)
      [] Quadrant(theta) = 3 -> TinyVal(0 - 1000, 0)
      [] Quadrant(theta) = 4 -> TinyVal(0, 0 - 4)

\* c + r * t for t a CosDeg or SinDeg result and r a whole number: a float.
\* The product is r or -r or 0.0 exactly, or r times the residue.
PolarSum(m, t) == TinyVal(m, IF Absorbed(m, t) THEN 0 ELSE t)

PolarCoord(c, r, t) ==
    PolarSum(c.m + (r.m * t.m) \div 1000, c.tiny + (r.m \div 1000) * t.tiny)

(***************************************************************************)
(* frange.  A call is followed turn by turn of its while loop: a frame     *)
(* holds where the call is (pc), its arguments, the loop variable i and    *)
(* the list result.                                                        *)
(***************************************************************************)
\* The elements of result that are kept; a longer list is kept up to here.
MaxElements == 8

\* a < b and a == 0 on numbers.
Less(a, b) == a.m < b.m \/ (a.m = b.m /\ a.tiny < b.tiny)

IsZero(a) == a.m = 0 /\ a.tiny = 0

\* a + b: an int for two ints, else the float nearest to the sum.
Add(a, b) ==
    [ty   |-> IF a.ty = "int" /\ b.ty = "int" THEN "int" ELSE "float",
     m    |-> a.m + b.m,
     tiny |-> IF Absorbed(a.m + b.m, a.tiny + b.tiny) THEN 0 ELSE a.tiny + b.tiny,
     f    |-> <<>>]

Max(x, y) == IF x >= y THEN x ELSE y

\* math.isclose(a, b), rel_tol 1e-09 and abs_tol 0:
\* abs(a - b) <= 1e-09 * max(abs(a), abs(b)).  Two values of the same
\* thousandths differ by residues at most.
isclose(a, b) ==
    IF a.m = b.m THEN a.tiny = b.tiny \/ a.m # 0
    ELSE Abs(a.m - b.m) <= Max(Abs(a.m), Abs(b.m)) \div 1000000000

Frame(pc, start, stop, step, i, result, err) ==
    [pc |-> pc, start |-> start, stop |-> stop, step |-> step, i |-> i,
     result |-> result, err |-> err]

\* No call of frange is under way.
NoFrame == Frame("idle", NoneVal, NoneVal, NoneVal, NoneVal, <<>>, NoErr)

\* frange that enters its loop for any step other than zero.
frange_any_direction(start, stop, step) ==
    IF IsZero(step)
    THEN Frame("raised", start, stop, step, NoneVal, <<>>,
               Err("ValueError", "Loop step must be non-zero"))
    ELSE Frame("while", start, stop, step, start, <<>>, NoErr)

\* frange up to its while loop: the step check, result, i = [], start, and
\* the choice of the loop by the direction, or the raise of the else branch.
frange(start, stop, step) ==
    IF IsZero(step)
    THEN Frame("raised", start, stop, step, NoneVal, <<>>,
               Err("ValueError", "Loop step must be non-zero"))
    ELSE IF \/ Less(IntVal(0), step) /\ Less(start, stop)
            \/ Less(step, IntVal(0)) /\ Less(stop, start)
    THEN Frame("while", start, stop, step, start, <<>>, NoErr)
    ELSE Frame("raised", start, stop, step, start, <<>>,
               Err("ValueError", "frange(): Infinite loop detected"))

\* The condition of the while loop the call is in.
Continues(l) ==
    IF Less(IntVal(0), l.step)
    THEN Less(l.i, l.stop) /\ ~isclose(l.i, l.stop)
    ELSE Less(l.stop, l.i) /\ ~isclose(l.i, l.stop)

\* The body of the while loop: result.append(i); i += step.
Turn(l) ==
    [l EXCEPT !.result = IF Len(@) < MaxElements THEN Append(@, l.i) ELSE @,
              !.i = Add(l.i, l.step)]

(***************************************************************************)
(* Machine State and the Command Handlers.  A handler takes its arguments  *)
(* and the state it reads and writes, st = [ms, out, app]: the module      *)
(* globals machine_state and exec_result and the host's g04-style setting. *)
(* It returns the state it leaves and whether it raised.                   *)
(***************************************************************************)
machine_state0 ==
    [ polar_mode    |-> [enabled |-> FALSE, cx |-> FloatVal(0), cy |-> FloatVal(0)],
      canned_cycle  |-> [mode |-> "", params |-> <<>>],
      unit          |-> "mm",
      positioning   |-> "absolute",
      spindle_state |-> "off",
      spindle_rpm   |-> IntVal(0),
      feedrate_mode |-> "normal",
      arc_plane     |-> "XY" ]

Return(st) == [ok |-> TRUE, st |-> st, err |-> NoErr]

Raised(st, e) == [ok |-> FALSE, st |-> st, err |-> e]

\* dict operations on keyword arguments, kept in call order.
KwNames(kwargs) == {kwargs[i].k : i \in 1..Len(kwargs)}

KwGet(kwargs, k) == kwargs[CHOOSE i \in 1..Len(kwargs) : kwargs[i].k = k].v

KwSet(kwargs, k, v) ==
    [i \in 1..Len(kwargs) |-> IF kwargs[i].k = k THEN KwArg(k, v) ELSE kwargs[i]]

KwPop(kwargs, k) == SelectSeq(kwargs, LAMBDA a : a.k # k)

\* f"{code} {" ".join(f"{k}{v}" for k, v in kwargs.items())}\n"
GcodeLine(code, kwargs) ==
    code \o <<" ">>
    \o join(<<" ">>, [i \in 1..Len(kwargs) |-> <<kwargs[i].k>> \o Str(kwargs[i].v)])
    \o <<NL>>

Emit(st, text) == [st EXCEPT !.out = @ \o text]

\* The conversion with the sine for X and the cosine for Y.
PolarConvertSwapped(kwargs, ms) ==
    KwSet(KwSet(kwargs, "X",
                PolarCoord(ms.polar_mode.cx, KwGet(kwargs, "X"),
                           SinDeg(KwGet(kwargs, "Y")))),
          "Y", PolarCoord(ms.polar_mode.cy, KwGet(kwargs, "X"),
                          CosDeg(KwGet(kwargs, "Y"))))

\* The polar branch shared by G00 and G01: the converted arguments, or the
\* letter whose counterpart is missing.
PolarConvert(kwargs, ms) ==
    LET r     == KwGet(kwargs, "X")
        theta == KwGet(kwargs, "Y")
        x     == PolarCoord(ms.polar_mode.cx, r, CosDeg(theta))
        y     == PolarCoord(ms.polar_mode.cy, r, SinDeg(theta))
    IN  KwSet(KwSet(kwargs, "X", x), "Y", y)

\* G00 and G01 without the check of the counterpart of a lone X or Y.
LinearMoveUnpaired(code, allowed, kwargs, st) ==
    IF KwNames(kwargs) \ allowed # {}
    THEN Raised(st, ErrN("ValueError", "contains unexpected parameter(s)",
                         KwNames(kwargs) \ allowed))
    ELSE IF st.ms.polar_mode.enabled /\ {"X", "Y"} \subseteq KwNames(kwargs)
    THEN Return(Emit(st, GcodeLine(code, PolarConvert(kwargs, st.ms))))
    ELSE Return(Emit(st, GcodeLine(code, kwargs)))

\* G00 and G01: the allow-list check, the polar conversion, the emission.
LinearMove(code, allowed, kwargs, st) ==
    LET illegal == KwNames(kwargs) \ allowed
        names   == KwNames(kwargs)
    IN  IF illegal # {}
        THEN Raised(st, ErrN("ValueError", "contains unexpected parameter(s)", illegal))
        ELSE IF st.ms.polar_mode.enabled /\ {"X", "Y"} \subseteq names
        THEN Return(Emit(st, GcodeLine(code, PolarConvert(kwargs, st.ms))))
        ELSE IF st.ms.polar_mode.enabled /\ "X" \in names /\ "Y" \notin names
        THEN Raised(st, ErrN("ValueError", "(polar mode) needs argument", {"Y"}))
        ELSE IF st.ms.polar_mode.enabled /\ "X" \notin names /\ "Y" \in names
        THEN Raised(st, ErrN("ValueError", "(polar mode) needs argument", {"X"}))
        ELSE Return(Emit(st, GcodeLine(code, kwargs)))

G00(kwargs, st) ==
    LinearMove(<<"G", "0", "0">>, {"X", "Y", "Z", "A", "B", "C"}, kwargs, st)

G01(kwargs, st) ==
    LinearMove(<<"G", "0", "1">>, {"X", "Y", "Z", "A", "B", "C", "F"}, kwargs, st)

\* G02 and G03 without the allow-list check.
ArcMoveUnchecked(code, kwargs, st) == Return(Emit(st, GcodeLine(code, kwargs)))

\* G02 and G03: the allow-list check and the emission.
ArcMove(code, kwargs, st) ==
    LET illegal == KwNames(kwargs) \ {"X", "Y", "Z", "I", "J", "K", "R", "F"}
    IN  IF illegal # {}
        THEN Raised(st, ErrN("ValueError", "contains unexpected parameter(s)", illegal))
        ELSE Return(Emit(st, GcodeLine(code, kwargs)))

G02(kwargs, st) == ArcMove(<<"G", "0", "2">>, kwargs, st)

G03(kwargs, st) == ArcMove(<<"G", "0", "3">>, kwargs, st)

\* -P / 1000: true division, a float.
MilliToSeconds(P) == FloatVal((0 - P.m) \div 1000)

G04(P, st) ==
    IF st.app = "RS-274"
    THEN Return(Emit(st, <<"G", "0", "4", " ", "P">>
                         \o Str(IF P.m >= 0 THEN P ELSE MilliToSeconds(P))
                         \o <<NL>>))
    ELSE Return(st)

\* G15 leaving the polar flag as it is.
G15Ignored(is_line_end, st) == Return(st)

G15(is_line_end, st) ==
    Return([st EXCEPT !.ms.polar_mode.enabled = FALSE])

G16(X, Y, st) ==
    Return([st EXCEPT !.ms.polar_mode = [enabled |-> TRUE, cx |-> X, cy |-> Y]])

\* "<code>\n" if is_line_end else "<code> "
CodeText(code, is_line_end) ==
    code \o (IF is_line_end.m # 0 THEN <<NL>> ELSE <<" ">>)

G17(is_line_end, st) ==
    Return(Emit([st EXCEPT !.ms.arc_plane = "XY"],
                CodeText(<<"G", "1", "7">>, is_line_end)))

G18(is_line_end, st) ==
    Return(Emit([st EXCEPT !.ms.arc_plane = "XZ"],
                CodeText(<<"G", "1", "8">>, is_line_end)))

G19(is_line_end, st) ==
    Return(Emit([st EXCEPT !.ms.arc_plane = "YZ"],
                CodeText(<<"G", "1", "9">>, is_line_end)))

G20(is_line_end, st) ==
    Return(Emit([st EXCEPT !.ms.unit = "in"],
                CodeText(<<"G", "2", "0">>, is_line_end)))

G21(is_line_end, st) ==
    Return(Emit([st EXCEPT !.ms.unit = "mm"],
                CodeText(<<"G", "2", "1">>, is_line_end)))

\* The drilling cycle's repetitions from repetition i on.
RECURSIVE DrillFrom(_, _, _)
DrillFrom(i, params, st) ==
    LET L == IF "L" \in KwNames(params) THEN KwGet(params, "L") ELSE IntVal(1)
    IN  IF ~(i * 1000 < L.m) THEN Return(st)
        ELSE
          LET down == G01(<<KwArg("Z", KwGet(params, "Z")),
                            KwArg("F", KwGet(params, "F"))>>, st)
              dwell == IF ~down.ok THEN down
                       ELSE IF "P" \in KwNames(params)
                       THEN G04(KwGet(params, "P"), down.st)
                       ELSE down
              up == IF ~dwell.ok THEN dwell
                    ELSE G00(<<KwArg("Z", KwGet(params, "R"))>>, dwell.st)
          IN  IF ~up.ok THEN up ELSE DrillFrom(i + 1, params, up.st)

canned_cycle_xy(X, Y, st) ==
    IF "parameters" \notin DOMAIN st.ms.canned_cycle
    THEN Raised(st, ErrN("KeyError", "parameters", {}))
    ELSE IF st.ms.canned_cycle.mode = ""
    THEN Raised(st, Err("SyntaxError",
                        "Canned cycle line (X,Y) appeared outside canned cycle"))
    ELSE IF st.ms.canned_cycle.mode = "G81.1"
    THEN LET rapid == G00(<<KwArg("X", X), KwArg("Y", Y)>>, st)
         IN  IF ~rapid.ok THEN rapid
             ELSE DrillFrom(0, st.ms.canned_cycle.parameters, rapid.st)
    ELSE Return(st)

\* machine_state["canned_cycle"][key] = value, for a key the dict may lack.
SetCycle(st, key, value) ==
    [st EXCEPT !.ms.canned_cycle = (key :> value) @@ @]

G80(is_line_end, st) ==
    Return(SetCycle(SetCycle(st, "mode", ""), "parameters", <<>>))

\* G81_1 setting the mode before it checks its parameters.
G81_1ModeFirst(kwargs, st) ==
    LET names   == KwNames(kwargs)
        missing_required == {"Z", "R", "F", "X", "Y"} \ names
        set == SetCycle(st, "mode", "G81.1")
    IN  IF names \ {"Z", "R", "F", "X", "Y", "L", "P", "D", "A"} # {}
        THEN Raised(set, ErrN("ValueError", "contains unexpected parameter(s)",
                              names \ {"Z", "R", "F", "X", "Y", "L", "P", "D", "A"}))
        ELSE IF missing_required # {}
        THEN Raised(set, ErrN("ValueError", "necessary parameter(s) missing",
                              missing_required))
        ELSE IF ("D" \in names) # ("A" \in names)
        THEN Raised(set, Err("ValueError",
                             "D and A must either provided together, or not at all"))
        ELSE canned_cycle_xy(
                KwGet(kwargs, "X"), KwGet(kwargs, "Y"),
                SetCycle(set, "parameters", KwPop(KwPop(kwargs, "X"), "Y")))

G81_1(kwargs, st) ==
    LET names   == KwNames(kwargs)
        illegal == names \ {"Z", "R", "F", "X", "Y", "L", "P", "D", "A"}
        missing_required == {"Z", "R", "F", "X", "Y"} \ names
    IN  IF illegal # {}
        THEN Raised(st, ErrN("ValueError", "contains unexpected parameter(s)", illegal))
        ELSE IF missing_required # {}
        THEN Raised(st, ErrN("ValueError", "necessary parameter(s) missing",
                             missing_required))
        ELSE IF ("D" \in names) # ("A" \in names)
        THEN Raised(st, Err("ValueError",
                            "D and A must either provided together, or not at all"))
        ELSE canned_cycle_xy(
                KwGet(kwargs, "X"), KwGet(kwargs, "Y"),
                SetCycle(SetCycle(st, "mode", "G81.1"), "parameters",
                         KwPop(KwPop(kwargs, "X"), "Y")))

G90(is_line_end, st) ==
    Return(Emit([st EXCEPT !.ms.positioning = "absolute"],
                CodeText(<<"G", "9", "0">>, is_line_end)))

G91(is_line_end, st) ==
    Return(Emit([st EXCEPT !.ms.positioning = "incremental"],
                CodeText(<<"G", "9", "1">>, is_line_end)))

G93(is_line_end, st) ==
    Return(Emit([st EXCEPT !.ms.feedrate_mode = "inverse"],
                CodeText(<<"G", "9", "3">>, is_line_end)))

G94(is_line_end, st) ==
    Return(Emit([st EXCEPT !.ms.feedrate_mode = "normal"],
                CodeText(<<"G", "9", "4">>, is_line_end)))

\* M03 without the check of the type of S.
M03Unchecked(S, st) ==
    Return(Emit([st EXCEPT !.ms.spindle_state = "on", !.ms.spindle_rpm = S],
                <<"M", "0", "3", " ", "S">> \o Str(S) \o <<NL>>))

M03(S, st) ==
    IF S.ty \notin {"int", "bool"}
    THEN Raised(st, Err("TypeError", "M03 spindle RPM must be an integer"))
    ELSE Return(Emit([st EXCEPT !.ms.spindle_state = "on", !.ms.spindle_rpm = S],
                     <<"M", "0", "3", " ", "S">> \o Str(S) \o <<NL>>))

\* M05 writes the key "spindle_RPM", which the initial dict does not hold.
M05(is_line_end, st) ==
    Return(Emit([st EXCEPT !.ms = [("spindle_RPM" :> IntVal(0)) @@ @
                                      EXCEPT !.spindle_state = "off"]],
                CodeText(<<"M", "0", "5">>, is_line_end)))

M30(is_line_end, st) ==
    Return(Emit(st, CodeText(<<"M", "0", "5">>, is_line_end)))

(***************************************************************************)
(* The namespace of exec() and the evaluation of the intermediate program. *)
(***************************************************************************)
\* The functions exec_ns binds, each under its own name.
NsFunctions ==
    { <<"c", "o", "s">>,
      <<"s", "i", "n">>,
      <<"t", "a", "n">>,
      <<"a", "b", "s">>,
      <<"s", "q", "r", "t">>,
      <<"p", "o", "w">>,
      <<"l", "o", "g">>,
      <<"e", "x", "p">>,
      <<"r", "o", "u", "n", "d">>,
      <<"f", "r", "a", "n", "g", "e">>,
      <<"c", "o", "n", "s", "o", "l", "e", "_", "p", "r", "i", "n", "t">>,
      <<"G", "0", "0">>,
      <<"G", "0", "1">>,
      <<"G", "0", "2">>,
      <<"G", "0", "3">>,
      <<"G", "0", "4">>,
      <<"G", "1", "5">>,
      <<"G", "1", "6">>,
      <<"G", "1", "7">>,
      <<"G", "1", "8">>,
      <<"G", "1", "9">>,
      <<"G", "2", "0">>,
      <<"G", "2", "1">>,
      <<"c", "a", "n", "n", "e", "d", "_", "c", "y", "c", "l", "e", "_", "x", "y">>,
      <<"G", "8", "0">>,
      <<"G", "8", "1", "_", "1">>,
      <<"G", "9", "0">>,
      <<"G", "9", "1">>,
      <<"G", "9", "3">>,
      <<"G", "9", "4">>,
      <<"M", "0", "3">>,
      <<"M", "0", "5">> }

\* exec_ns as the module defines it: no M30, no canned_cycle.  PI and E are
\* floats (to the thousandth).
exec_ns0 ==
    [n \in NsFunctions |-> FuncVal(n)]
    @@ (<<"P", "I">> :> FloatVal(3142)) @@ (<<"E">> :> FloatVal(2718))

\* The handlers that take **kwargs, those that take one parameter
\* is_line_end, and the parameter names of the others.
KwargsHandlers == { <<"G", "0", "0">>, <<"G", "0", "1">>, <<"G", "0", "2">>, <<"G", "0", "3">>, <<"G", "8", "1", "_", "1">> }

FlagHandlers ==
    { <<"G", "1", "5">>, <<"G", "1", "7">>, <<"G", "1", "8">>,
      <<"G", "1", "9">>, <<"G", "2", "0">>, <<"G", "2", "1">>,
      <<"G", "8", "0">>, <<"G", "9", "0">>, <<"G", "9", "1">>,
      <<"G", "9", "3">>, <<"G", "9", "4">>, <<"M", "0", "5">> }

Signature(f) ==
    CASE f = <<"G", "0", "4">> -> <<"P">>
      [] f = <<"G", "1", "6">> -> <<"X", "Y">>
      [] f = <<"M", "0", "3">> -> <<"S">>
      [] f = <<"c", "a", "n", "n", "e", "d", "_", "c", "y", "c", "l", "e", "_", "x", "y">> -> <<"X", "Y">>
      [] f \in FlagHandlers -> <<"is_line_end">>
      [] OTHER -> <<>>

\* Python's binding of a call's arguments to the parameters of f: an
\* exception for arguments the signature does not take or lacks.
BindError(f, kwargs, pos) ==
    IF f \in KwargsHandlers
    THEN IF pos # <<>>
         THEN ErrN("TypeError", "takes 0 positional arguments", {})
         ELSE NoErr
    ELSE LET sig        == Signature(f)
             byPos      == {sig[i] : i \in 1..Len(pos)}
             unexpected == KwNames(kwargs) \ Range(sig)
             missing    == Range(sig) \ (byPos \cup KwNames(kwargs))
         IN  IF Len(pos) > Len(sig)
             THEN ErrN("TypeError", "takes fewer positional arguments", {})
             ELSE IF unexpected # {}
             THEN ErrN("TypeError", "got an unexpected keyword argument", unexpected)
             ELSE IF byPos \cap KwNames(kwargs) # {}
             THEN ErrN("TypeError", "got multiple values for argument",
                       byPos \cap KwNames(kwargs))
             ELSE IF missing # {}
             THEN ErrN("TypeError", "missing required positional argument", missing)
             ELSE NoErr

\* The value bound to parameter sig[i]: positional first, else by keyword.
Arg(f, kwargs, pos, i) ==
    IF i <= Len(pos) THEN pos[i] ELSE KwGet(kwargs, Signature(f)[i])

\* The call f(*pos, **kwargs) of a function object of the namespace.
Apply(f, kwargs, pos, st) ==
    LET a(i) == Arg(f, kwargs, pos, i)
    IN  IF BindError(f, kwargs, pos) # NoErr
        THEN Raised(st, BindError(f, kwargs, pos))
        ELSE CASE f = <<"G", "0", "0">> -> G00(kwargs, st)
               [] f = <<"G", "0", "1">> -> G01(kwargs, st)
               [] f = <<"G", "0", "2">> -> G02(kwargs, st)
               [] f = <<"G", "0", "3">> -> G03(kwargs, st)
               [] f = <<"G", "0", "4">> -> G04(a(1), st)
               [] f = <<"G", "1", "5">> -> G15(a(1), st)
               [] f = <<"G", "1", "6">> -> G16(a(1), a(2), st)
               [] f = <<"G", "1", "7">> -> G17(a(1), st)
               [] f = <<"G", "1", "8">> -> G18(a(1), st)
               [] f = <<"G", "1", "9">> -> G19(a(1), st)
               [] f = <<"G", "2", "0">> -> G20(a(1), st)
               [] f = <<"G", "2", "1">> -> G21(a(1), st)
               [] f = <<"c", "a", "n", "n", "e", "d", "_", "c", "y", "c", "l", "e", "_", "x", "y">> -> canned_cycle_xy(a(1), a(2), st)
               [] f = <<"G", "8", "0">> -> G80(a(1), st)
               [] f = <<"G", "8", "1", "_", "1">> -> G81_1(kwargs, st)
               [] f = <<"G", "9", "0">> -> G90(a(1), st)
               [] f = <<"G", "9", "1">> -> G91(a(1), st)
               [] f = <<"G", "9", "3">> -> G93(a(1), st)
               [] f = <<"G", "9", "4">> -> G94(a(1), st)
               [] f = <<"M", "0", "3">> -> M03(a(1), st)
               [] f = <<"M", "0", "5">> -> M05(a(1), st)

\* The value of an argument expression: a literal, a constant, a name of
\* the namespace; an unbound name raises NameError.
Eval(tok, ns) ==
    IF IsSignedNumber(tok) THEN Ok(ParseNumber(tok))
    ELSE IF tok = <<"T", "r", "u", "e">> THEN Ok(BoolVal(TRUE))
    ELSE IF tok = <<"F", "a", "l", "s", "e">> THEN Ok(BoolVal(FALSE))
    ELSE IF tok = <<"N", "o", "n", "e">> THEN Ok(NoneVal)
    ELSE IF tok \in DOMAIN ns THEN Ok(ns[tok])
    ELSE Raise(ErrN("NameError", "name is not defined", {tok}))

\* The keyword arguments of a call evaluated left to right: the values, or
\* the first exception.
RECURSIVE EvalKw(_, _)
EvalKw(kw, ns) ==
    IF kw = <<>> THEN Ok(<<>>)
    ELSE LET v == Eval(Head(kw).v, ns)
             r == EvalKw(Tail(kw), ns)
         IN  IF ~v.ok THEN v
             ELSE IF ~r.ok THEN r
             ELSE Ok(<<KwArg(Head(kw).k, v.val)>> \o r.val)

RECURSIVE EvalPos(_, _)
EvalPos(pos, ns) ==
    IF pos = <<>> THEN Ok(<<>>)
    ELSE LET v == Eval(Head(pos), ns)
             r == EvalPos(Tail(pos), ns)
         IN  IF ~v.ok THEN v
             ELSE IF ~r.ok THEN r
             ELSE Ok(<<v.val>> \o r.val)

\* A call expression fn(args): the function name is looked up first, then
\* the arguments are evaluated, then the object is called.
EvalCall(fn, kw, pos, ns, st) ==
    LET kwv  == EvalKw(kw, ns)
        posv == EvalPos(pos, ns)
    IN  IF fn \notin DOMAIN ns
        THEN Raised(st, ErrN("NameError", "name is not defined", {fn}))
        ELSE IF ~posv.ok THEN Raised(st, posv.err)
        ELSE IF ~kwv.ok THEN Raised(st, kwv.err)
        ELSE IF ns[fn].ty # "func"
        THEN Raised(st, ErrN("TypeError", "object is not callable", {fn}))
        ELSE Apply(ns[fn].f, kwv.val, posv.val, st)

(***************************************************************************)
(* Python's reading of one source line of the intermediate program.        *)
(***************************************************************************)
\* The line without the whitespace at its ends.
TrimLeft(line) ==
    IF line # <<>> /\ Head(line).t = "text"
    THEN Lit(lstrip(Head(line).text)) \o Tail(line)
    ELSE line

TrimRight(line) ==
    IF line # <<>> /\ line[Len(line)].t = "text"
    THEN SubSeq(line, 1, Len(line) - 1) \o Lit(rstrip(line[Len(line)].text))
    ELSE line

Body(line) == TrimRight(TrimLeft(line))

\* The line's indentation.
Indent(line) ==
    IF line # <<>> /\ Head(line).t = "text"
    THEN LeadingSpace(Head(line).text)
    ELSE <<>>

\* The text of a line made of literal text only.
RECURSIVE FlatText(_)
FlatText(line) ==
    IF line = <<>> THEN <<>> ELSE Head(line).text \o FlatText(Tail(line))

IsTextOnly(line) == \A i \in 1..Len(line) : line[i].t = "text"

\* What statement the line is.  The statements modelled are the calls the
\* translator generates, an assignment name = ... = expression, and an
\* expression alone; all at top level, so any indentation is unexpected.
Kind(line) ==
    LET body == Body(line)
        text == FlatText(body)
    IN  IF body = <<>> THEN "blank"
        ELSE IF Indent(line) # <<>> THEN "indent_error"
        ELSE IF Len(body) = 1 /\ body[1].t = "call"
        THEN IF /\ IsIdentifier(body[1].fn)
                /\ \A i \in 1..Len(body[1].kw) : IsArgExpression(body[1].kw[i].v)
                /\ \A i \in 1..Len(body[1].pos) : IsArgExpression(body[1].pos[i])
             THEN "call"
             ELSE "syntax_error"
        ELSE IF ~IsTextOnly(body) THEN "syntax_error"
        ELSE IF _is_variable_declaration(text) THEN "assign"
        ELSE IF Len(split(text)) = 1 /\ IsExpression(split(text)[1]) THEN "expr"
        ELSE "syntax_error"

\* A call that gives one keyword twice: rejected when the parsed program is
\* compiled, after the whole text has parsed.
KwRepeated(line) ==
    /\ Kind(line) = "call"
    /\ \E i, j \in 1..Len(Body(line)[1].kw) :
          i < j /\ Body(line)[1].kw[i].k = Body(line)[1].kw[j].k

Min(S) == CHOOSE x \in S : \A y \in S : x <= y

\* exec() compiles the whole program before it runs any of it: the line of
\* the first error and its class, or line 0.
SyntaxCheck(program) ==
    LET bad == {p \in 1..Len(program) :
                   Kind(program[p]) \in {"syntax_error", "indent_error"}}
        rep == {p \in 1..Len(program) : KwRepeated(program[p])}
    IN  IF bad # {}
        THEN [line |-> Min(bad),
              err |-> IF Kind(program[Min(bad)]) = "indent_error"
                      THEN Err("IndentationError", "unexpected indent")
                      ELSE Err("SyntaxError", "invalid syntax")]
        ELSE IF rep # {}
        THEN [line |-> Min(rep), err |-> Err("SyntaxError", "keyword argument repeated")]
        ELSE [line |-> 0, err |-> NoErr]

\* name(True) as text: the name and the argument.
BoolCallName(tok) == SubSeq(tok, 1, Find(tok, {"("}) - 1)

BoolCallArg(tok) == SubSeq(tok, Find(tok, {"("}) + 1, Len(tok) - 1)

\* The result of running a statement: the state and namespace it leaves.
Ran(r, ns) == [ok |-> r.ok, st |-> r.st, ns |-> ns, err |-> r.err]

\* An expression statement or the right-hand side of an assignment: the
\* state it leaves and its value (a handler returns None).
CallValue(r) == [ok |-> r.ok, st |-> r.st, val |-> NoneVal, err |-> r.err]

NameValue(v, st) ==
    [ok |-> v.ok, st |-> st, val |-> IF v.ok THEN v.val ELSE NoneVal, err |-> v.err]

EvalExpression(tok, ns, st) ==
    IF IsBoolCall(tok)
    THEN CallValue(EvalCall(BoolCallName(tok), <<>>, <<BoolCallArg(tok)>>, ns, st))
    ELSE NameValue(Eval(tok, ns), st)

\* The namespace after name = ... = value.
Bind(ns, targets, value) ==
    [n \in DOMAIN ns \cup Range(targets) |->
        IF n \in Range(targets) THEN value ELSE ns[n]]

\* An assignment whose right-hand side gave r: the targets are bound when it
\* did not raise.
Assigned(r, ns, targets) == Ran(r, IF r.ok THEN Bind(ns, targets, r.val) ELSE ns)

\* The targets of name = ... = expression.
Targets(toks) ==
    SelectSeq(SubSeq(toks, 1, Len(toks) - 1), LAMBDA t : t # <<"=">>)

\* A statement of the given kind run.
ExecKind(kind, body, toks, ns, st) ==
    CASE kind = "blank" -> Ran(Return(st), ns)
      [] kind = "call" ->
            Ran(EvalCall(body[1].fn, body[1].kw, body[1].pos, ns, st), ns)
      [] kind = "expr" -> Ran(EvalExpression(toks[1], ns, st), ns)
      [] kind = "assign" ->
            Assigned(EvalExpression(toks[Len(toks)], ns, st), ns, Targets(toks))

\* One statement run by exec(python_code, exec_ns).
ExecLine(line, ns, st) ==
    ExecKind(Kind(line), Body(line), split(FlatText(Body(line))), ns, st)

(***************************************************************************)
(* Numeric Rounding Pass.                                                  *)
(***************************************************************************)
\* The index of the last character of the maximal run of digits of text
\* from i on, i - 1 if there is none.
RECURSIVE DigitsEnd(_, _)
DigitsEnd(text, i) ==
    IF i <= Len(text) /\ text[i] \in Digit THEN DigitsEnd(text, i + 1) ELSE i - 1

\* -?\d+(?:\.\d+)? matched at index i: the index of its last character, 0 if
\* it does not match there.
NumberEnd(text, i) ==
    LET j == IF i <= Len(text) /\ text[i] = "-" THEN i + 1 ELSE i
        e == DigitsEnd(text, j)
        f == IF e + 1 <= Len(text) /\ text[e + 1] = "."
             THEN DigitsEnd(text, e + 2) ELSE 0
    IN  IF e < j THEN 0
        ELSE IF f >= e + 2 THEN f
        ELSE e

Pow10(n) == IF n = 0 THEN 1 ELSE IF n = 1 THEN 10 ELSE IF n = 2 THEN 100 ELSE 1000

\* Zeros after the third fraction digit.
RECURSIVE Zeros(_)
Zeros(n) == IF n <= 0 THEN <<>> ELSE <<"0">> \o Zeros(n - 1)

\* n as exactly w digits.
RECURSIVE Padded(_, _)
Padded(n, w) == IF w = 0 THEN <<>> ELSE Padded(n \div 10, w - 1) \o <<DigitChar(n % 10)>>

\* f"{v:.{prec}f}" for v the float of a matched number of mag thousandths:
\* fixed-point with prec fraction digits, rounded half to even (the halves
\* of the values modelled are exact in binary).
FormatFixed(neg, mag, prec) ==
    LET q   == Pow10(3 - prec)
        lo  == mag \div q
        rem == mag % q
        r   == IF prec >= 3 THEN mag
               ELSE IF 2 * rem > q \/ (2 * rem = q /\ lo % 2 = 1) THEN lo + 1
               ELSE lo
        w   == IF prec >= 3 THEN 3 ELSE prec
    IN  (IF neg THEN <<"-">> ELSE <<>>)
        \o NatStr(r \div Pow10(w))
        \o (IF prec = 0 THEN <<>>
            ELSE <<".">> \o Padded(r % Pow10(w), w) \o Zeros(prec - 3))

\* re.sub(pattern, lambda m: round_val(m, prec), text) for the pattern
\* ([letters])(-?\d+(?:\.\d+)?), from index i on.
\* round_val on the matched number num.
RoundVal(num, prec) ==
    FormatFixed(num[1] = "-", UnsignedVal(IF num[1] = "-" THEN Tail(num) ELSE num),
                prec)

\* The index of the first match of the pattern from index i on, 0 if none.
MatchFrom(text, letters, i) ==
    IF \E k \in i..Len(text) : text[k] \in letters /\ NumberEnd(text, k + 1) # 0
    THEN CHOOSE k \in i..Len(text) :
            /\ text[k] \in letters /\ NumberEnd(text, k + 1) # 0
            /\ \A j \in i..(k - 1) : ~(text[j] \in letters /\ NumberEnd(text, j + 1) # 0)
    ELSE 0

RECURSIVE RoundPass(_, _, _, _)

\* The text from index i on with the match at index k, if any, replaced and
\* the pass continued after it.
RoundAt(text, letters, prec, i, k) ==
    IF k = 0 THEN SubSeq(text, i, Len(text))
    ELSE SubSeq(text, i, k)
         \o RoundVal(SubSeq(text, k + 1, NumberEnd(text, k + 1)), prec)
         \o RoundPass(text, letters, prec, NumberEnd(text, k + 1) + 1)

RoundPass(text, letters, prec, i) ==
    RoundAt(text, letters, prec, i, MatchFrom(text, letters, i))

round_gcode(crude_gcode, max_precision) ==
    IF Len(max_precision) # 2
    THEN Raise(Err("ValueError", "values to unpack (expected 2)"))
    ELSE Ok(RoundPass(RoundPass(crude_gcode, {"X", "Y", "Z"}, max_precision[1], 1),
                      {"A", "B", "C"}, max_precision[2], 1))

(***************************************************************************)
(* One whole compilation, from the namespace ns and the state st.          *)
(***************************************************************************)
\* What a compilation gives the host.
NoOutcome ==
    [status |-> "none", gcode |-> <<>>, stage |-> "", reported |-> "",
     line |-> 0, err |-> NoErr]

\* xgc_to_gcode returned final_gcode.
Compiled(gcode) ==
    [status |-> "ok", gcode |-> gcode, stage |-> "", reported |-> "",
     line |-> 0, err |-> NoErr]

\* MainApp._compile's except branch: the failure is reported as an exec()
\* error with the line number of the traceback's File "<string>" frame when
\* there is one (stage is "syntax" or "exec", at source line pyline), as a
\* preprocessor error without a number otherwise.  Nothing is returned.
Failed(stage, pyline, err) ==
    [status |-> "failed", gcode |-> <<>>, stage |-> stage,
     reported |-> IF stage \in {"syntax", "exec"} THEN "exec" ELSE "preprocess",
     line |-> IF stage \in {"syntax", "exec"} THEN pyline ELSE 0,
     err |-> err]

\* The rounding pass returned r or raised.
Rounded(r) == IF r.ok THEN Compiled(r.val) ELSE Failed("round", 0, r.err)

\* exec() runs the statements from source line p on, until one raises.
RECURSIVE RunFrom(_, _, _, _, _)

RunNext(program, p, r, prec) ==
    IF r.ok THEN RunFrom(program, p + 1, r.ns, r.st, prec)
    ELSE Failed("exec", p, r.err)

RunFrom(program, p, ns, st, prec) ==
    IF p > Len(program) THEN Rounded(round_gcode(st.out, prec))
    ELSE RunNext(program, p, ExecLine(program[p], ns, st), prec)

\* exec_result = "", exec(python_code, exec_ns); then the rounding pass.
python_to_gcode(c, python_code, ns, st, prec) ==
    IF c.line # 0 THEN Failed("syntax", c.line, c.err)
    ELSE RunFrom(python_code, 1, ns, [st EXCEPT !.out = <<>>], prec)

TranslatedAndRun(t, ns, st, prec) ==
    IF ~t.ok THEN Failed("translate", 0, t.err)
    ELSE python_to_gcode(SyntaxCheck(t.val), t.val, ns, st, prec)

xgc_to_gcode(xgc_script, prec, ns, st) ==
    TranslatedAndRun(xgc_to_python(xgc_strip(xgc_script)), ns, st, prec)

(***************************************************************************)
(* The scripts compiled: up to MaxLines lines, each one of a pool of       *)
(* script lines.                                                           *)
(***************************************************************************)
MaxLines == 2

\* ; setup
LineComment ==
    <<";", " ", "s", "e", "t", "u", "p">>

\* G17 G90 G21
LineModes ==
    <<"G", "1", "7", " ", "G", "9", "0", " ", "G", "2", "1">>

\* G91 G18
LineIncXZ ==
    <<"G", "9", "1", " ", "G", "1", "8">>

\* M30
LineEnd ==
    <<"M", "3", "0">>

\* M05 M30
LineStopEnd ==
    <<"M", "0", "5", " ", "M", "3", "0">>

\* G01 X10 5
LineBadToken ==
    <<"G", "0", "1", " ", "X", "1", "0", " ", "5">>

\* G80
LineLeave ==
    <<"G", "8", "0">>

\* []
LineBrackets ==
    <<"[", "]">>

\* G19 G18 G91
LinePlanes ==
    <<"G", "1", "9", " ", "G", "1", "8", " ", "G", "9", "1">>

\* G20 G93
LineInchInverse ==
    <<"G", "2", "0", " ", "G", "9", "3">>

\* G94
LineFeed ==
    <<"G", "9", "4">>

\* G91 G90 G17
LineAbsIncAbs ==
    <<"G", "9", "1", " ", "G", "9", "0", " ", "G", "1", "7">>

\* G81_1 Z-5 R2 F100 X0 Y0
LineDrill ==
    <<"G", "8", "1", "_", "1", " ", "Z", "-", "5", " ", "R", "2", " ", "F",
      "1", "0", "0", " ", "X", "0", " ", "Y", "0">>

\* G81_1 Z-5 R2 F100 X0 Y0 L3
LineDrill3 ==
    <<"G", "8", "1", "_", "1", " ", "Z", "-", "5", " ", "R", "2", " ", "F",
      "1", "0", "0", " ", "X", "0", " ", "Y", "0", " ", "L", "3">>

\* G81_1 X1 Y2 Z-3 R1 F50 P-500 L2
LineDrillDwell ==
    <<"G", "8", "1", "_", "1", " ", "X", "1", " ", "Y", "2", " ", "Z", "-",
      "3", " ", "R", "1", " ", "F", "5", "0", " ", "P", "-", "5", "0", "0",
      " ", "L", "2">>

\* X5 Y5
LineXY ==
    <<"X", "5", " ", "Y", "5">>

\* X5
LineX ==
    <<"X", "5">>

\* z = G80(True)
LineLeaveCall ==
    <<"z", " ", "=", " ", "G", "8", "0", "(", "T", "r", "u", "e", ")">>

\* G16 X0 Y0
LinePolarOn ==
    <<"G", "1", "6", " ", "X", "0", " ", "Y", "0">>

\* G16 X100 Y200
LinePolarOnAway ==
    <<"G", "1", "6", " ", "X", "1", "0", "0", " ", "Y", "2", "0", "0">>

\* G15
LinePolarOff ==
    <<"G", "1", "5">>

\* G01 X10 Y90 F100
LineFeedMove ==
    <<"G", "0", "1", " ", "X", "1", "0", " ", "Y", "9", "0", " ", "F", "1",
      "0", "0">>

\* G00 Z5 X1 Y180 A-45.0
LineRapidMove ==
    <<"G", "0", "0", " ", "Z", "5", " ", "X", "1", " ", "Y", "1", "8", "0",
      " ", "A", "-", "4", "5", ".", "0">>

\* G01 X10
LineRadiusOnly ==
    <<"G", "0", "1", " ", "X", "1", "0">>

\* G00 Y90
LineAngleOnly ==
    <<"G", "0", "0", " ", "Y", "9", "0">>

\* G01 Z5 F100
LineLift ==
    <<"G", "0", "1", " ", "Z", "5", " ", "F", "1", "0", "0">>

\* G00 X1 Q2
LineRapidQ ==
    <<"G", "0", "0", " ", "X", "1", " ", "Q", "2">>

\* G01 X1.5 Q5 W3 F100
LineFeedQW ==
    <<"G", "0", "1", " ", "X", "1", ".", "5", " ", "Q", "5", " ", "W", "3",
      " ", "F", "1", "0", "0">>

\* G02 X1 Y1 A90
LineArcA ==
    <<"G", "0", "2", " ", "X", "1", " ", "Y", "1", " ", "A", "9", "0">>

\* G03 X1 Y1 R2 P5
LineArcP ==
    <<"G", "0", "3", " ", "X", "1", " ", "Y", "1", " ", "R", "2", " ", "P",
      "5">>

\* G81_1 Z-5 R2 F100 X0 Y0 Q1
LineDrillQ ==
    <<"G", "8", "1", "_", "1", " ", "Z", "-", "5", " ", "R", "2", " ", "F",
      "1", "0", "0", " ", "X", "0", " ", "Y", "0", " ", "Q", "1">>

\* G00 F100
LineRapidF ==
    <<"G", "0", "0", " ", "F", "1", "0", "0">>

\* G01 X1 F100
LineFeedX ==
    <<"G", "0", "1", " ", "X", "1", " ", "F", "1", "0", "0">>

\* M03 S1000
LineSpindle ==
    <<"M", "0", "3", " ", "S", "1", "0", "0", "0">>

\* M03 S1000.5
LineSpindleFloat ==
    <<"M", "0", "3", " ", "S", "1", "0", "0", "0", ".", "5">>

\* M03 STrue
LineSpindleTrue ==
    <<"M", "0", "3", " ", "S", "T", "r", "u", "e">>

\* M03 SNone
LineSpindleNone ==
    <<"M", "0", "3", " ", "S", "N", "o", "n", "e">>

\* s = 1200
LineSpeed ==
    <<"s", " ", "=", " ", "1", "2", "0", "0">>

\* M03 Ss
LineSpindleSpeed ==
    <<"M", "0", "3", " ", "S", "s">>

\* M03 = 5
LineRebind ==
    <<"M", "0", "3", " ", "=", " ", "5">>

\* M05
LineSpindleStop ==
    <<"M", "0", "5">>

\* Y7
LineYOnly ==
    <<"Y", "7">>

\* Y5 X5
LineYX ==
    <<"Y", "5", " ", "X", "5">>

\* X1 X2
LineXX ==
    <<"X", "1", " ", "X", "2">>

\* X5 Y5 behind two spaces
LineXYIndented ==
    <<" ", " ", "X", "5", " ", "Y", "5">>

\* X1 Y2 X3
LineXYX ==
    <<"X", "1", " ", "Y", "2", " ", "X", "3">>

\* G81_1 Z-5 R2 X0 Y0
LineDrillNoF ==
    <<"G", "8", "1", "_", "1", " ", "Z", "-", "5", " ", "R", "2", " ", "X",
      "0", " ", "Y", "0">>

\* G81_1 Z-5
LineDrillZOnly ==
    <<"G", "8", "1", "_", "1", " ", "Z", "-", "5">>

\* G81_1 Z-5 R2 F100 X0 Y0 D1
LineDrillD ==
    <<"G", "8", "1", "_", "1", " ", "Z", "-", "5", " ", "R", "2", " ", "F",
      "1", "0", "0", " ", "X", "0", " ", "Y", "0", " ", "D", "1">>

\* G81_1 Z-5 R2 F100 X0 Y0 A2
LineDrillA ==
    <<"G", "8", "1", "_", "1", " ", "Z", "-", "5", " ", "R", "2", " ", "F",
      "1", "0", "0", " ", "X", "0", " ", "Y", "0", " ", "A", "2">>

\* G81_1 Z-7 R3 F100 X0 Y0 D1 A2
LineDrillDA ==
    <<"G", "8", "1", "_", "1", " ", "Z", "-", "7", " ", "R", "3", " ", "F",
      "1", "0", "0", " ", "X", "0", " ", "Y", "0", " ", "D", "1", " ", "A",
      "2">>

\* G81_1 Z-5 Q1
LineDrillQOnly ==
    <<"G", "8", "1", "_", "1", " ", "Z", "-", "5", " ", "Q", "1">>

\* G18 G15
LinePlaneLeave ==
    <<"G", "1", "8", " ", "G", "1", "5">>

\* G04 P2
LineDwell ==
    <<"G", "0", "4", " ", "P", "2">>

\* G90 G21 behind two spaces
LineModesIndented ==
    <<" ", " ", "G", "9", "0", " ", "G", "2", "1">>

\* G01 X1 F100 behind two spaces
LineFeedIndented ==
    <<" ", " ", "G", "0", "1", " ", "X", "1", " ", "F", "1", "0", "0">>

\* M05 behind a tab
LineStopIndented ==
    <<"\t", "M", "0", "5">>

\* Failures of every phase, around lines that succeed.
MainPool ==
    { LineComment, LineModes, LineIncXZ, LineEnd, LineStopEnd, LineBadToken,
      LineLeave, LineBrackets }

\* Lines of plane, unit, positioning and feedrate-mode codes.
ModalPool == { LineModes, LinePlanes, LineInchInverse, LineFeed, LineAbsIncAbs }

\* Drilling-cycle entries, coordinate-only lines, leave-cycle.
CyclePool ==
    { LineDrill, LineDrill3, LineDrillDwell, LineXY, LineX, LineLeaveCall }

\* Polar mode switched on about two origins and off, and linear moves with
\* both, one and none of X and Y.
PolarPool ==
    { LinePolarOn, LinePolarOnAway, LinePolarOff, LineFeedMove, LineRapidMove,
      LineRadiusOnly, LineAngleOnly, LineLift }

\* Motion commands and cycle entries with letters outside their allow-lists,
\* and without.
MotionPool ==
    { LineRapidQ, LineFeedQW, LineArcA, LineArcP, LineDrillQ, LineRapidF,
      LineFeedX, LineDrill }

\* Spindle start with an int, a float, a bool, None and a name; lines that
\* bind a new name and rebind M03.
SpindlePool ==
    { LineSpindle, LineSpindleFloat, LineSpindleTrue, LineSpindleNone,
      LineSpeed, LineSpindleSpeed, LineRebind, LineSpindleStop }

\* Coordinate-only lines: each axis alone, both in either order, an axis
\* given twice, an indented line; and a cycle entry.
CoordPool ==
    { LineXY, LineX, LineYOnly, LineYX, LineXX, LineXYIndented, LineXYX,
      LineDrill }

\* Cycle entries: complete, without required letters, with one and with both
\* of D and A, with a letter outside the allow-list; and leave-cycle.
EntryPool ==
    { LineDrill, LineDrillNoF, LineDrillZOnly, LineDrillD, LineDrillA,
      LineDrillDA, LineDrillQOnly, LineLeaveCall }

\* Lines of parameterless commands, with polar-leave last and alone,
\* leave-cycle, spindle stop and program end; a dwell and a move.
CommandPool ==
    { LineModes, LinePolarOff, LinePlaneLeave, LineLeave, LineSpindleStop,
      LineStopEnd, LineDwell, LineFeedX }

\* Command lines with and without leading whitespace.
IndentPool ==
    { LineModes, LineModesIndented, LineFeedX, LineFeedIndented,
      LineStopIndented }

Scripts(lines) == UNION { [1..n -> lines] : n \in 1..MaxLines }

\* The scripts of a first compilation: up to MaxFreshLines lines.
MaxFreshLines == 3

FreshScripts(lines) == UNION { [1..n -> lines] : n \in 1..MaxFreshLines }

\* val_precision: (positional, angular), and a record that is no pair.
PrecisionPool == { <<2, 0>>, <<3, 3, 0>> }

\* The host's g04-style setting: the one style G04 knows, and another.
DwellStyles == { "RS-274", "Fanuc" }

(***************************************************************************)
(* The state.                                                              *)
(***************************************************************************)
VARIABLES
    machine_state,   \* py_execute.machine_state
    exec_result,     \* py_execute.exec_result
    exec_ns,         \* py_execute.exec_ns
    settings,        \* app.settings["transpiler"]["g04-style"]
    pool,            \* the lines the host's scripts are made of
    pc,              \* "idle", "translate", "exec" (inside exec()), "done"
    xgc_content,     \* the script of the current compilation
    val_precision,   \* its precision argument
    python_code,     \* the intermediate program
    ip,              \* the source line exec() is at
    outcome,         \* what the compilation gave the host
    trace,           \* the text each statement run so far has appended
    loop             \* the frame of the call of frange under way

vars == << machine_state, exec_result, exec_ns, settings, pool, pc,
           xgc_content, val_precision, python_code, ip, outcome, trace, loop >>

\* python_to_gcode without the clearing of exec_result.
KeepResult(old_result) == old_result

\* python_to_gcode: exec_result = "" before exec().
ClearResult(old_result) == <<>>

Init0 ==
    /\ machine_state = machine_state0
    /\ exec_result = <<>>
    /\ exec_ns = exec_ns0
    /\ pc = "idle"
    /\ xgc_content = <<>>
    /\ val_precision = <<>>
    /\ python_code = <<>>
    /\ ip = 0
    /\ outcome = NoOutcome
    /\ trace = <<>>
    /\ loop = NoFrame

Init == Init0 /\ pool = MainPool /\ settings = "RS-274"

InitModal == Init0 /\ pool = ModalPool /\ settings = "RS-274"

InitCycle == Init0 /\ pool = CyclePool /\ settings \in DwellStyles

InitPolar == Init0 /\ pool = PolarPool /\ settings = "RS-274"

InitMotion == Init0 /\ pool = MotionPool /\ settings = "RS-274"

InitSpindle == Init0 /\ pool = SpindlePool /\ settings = "RS-274"

InitCoord == Init0 /\ pool = CoordPool /\ settings = "RS-274"

InitEntry == Init0 /\ pool = EntryPool /\ settings = "RS-274"

InitCommand == Init0 /\ pool = CommandPool /\ settings \in DwellStyles

InitIndent == Init0 /\ pool = IndentPool /\ settings = "RS-274"

\* The host reads one of the scripts and calls xgc_to_gcode(xgc_content,
\* val_precision).
Started(scripts) ==
    /\ \E lines \in scripts : xgc_content' = join(<<NL>>, lines)
    /\ \E prec \in PrecisionPool : val_precision' = prec
    /\ pc' = "translate"
    /\ python_code' = <<>>
    /\ ip' = 0
    /\ outcome' = NoOutcome
    /\ trace' = <<>>
    /\ UNCHANGED << machine_state, exec_result, exec_ns, settings, pool, loop >>

\* A compilation, the first or a later one.
Compile ==
    /\ pc \in {"idle", "done"}
    /\ Started(Scripts(pool))

\* The first compilation after the program has started, with a script of up
\* to MaxFreshLines lines.
CompileFresh ==
    /\ pc = "idle"
    /\ Started(FreshScripts(pool))

\* exec() compiled the program: a syntax error ends the compilation before
\* any statement runs.
Parsed(c) ==
    IF c.line # 0
    THEN /\ pc' = "done"
         /\ outcome' = Failed("syntax", c.line, c.err)
    ELSE /\ pc' = "exec"
         /\ outcome' = NoOutcome

\* xgc_to_python returned t or raised: on a program, python_to_gcode clears
\* exec_result and calls exec().
Translated(t) ==
    IF ~t.ok
    THEN /\ python_code' = <<>>
         /\ exec_result' = exec_result
         /\ pc' = "done"
         /\ outcome' = Failed("translate", 0, t.err)
    ELSE /\ python_code' = t.val
         /\ exec_result' = ClearResult(exec_result)
         /\ Parsed(SyntaxCheck(t.val))

\* xgc_to_gcode: normalization and translation, then python_to_gcode up to
\* the compilation of the program by exec().
Translate ==
    /\ pc = "translate"
    /\ Translated(xgc_to_python(xgc_strip(xgc_content)))
    /\ ip' = 1
    /\ UNCHANGED << machine_state, exec_ns, settings, pool, xgc_content,
                    val_precision, trace, loop >>

\* The statement at source line ip ran and left r.
Stepped(r) ==
    /\ machine_state' = r.st.ms
    /\ exec_result' = r.st.out
    /\ exec_ns' = r.ns
    /\ trace' = Append(trace,
           [ip |-> ip,
            text |-> SubSeq(r.st.out, Len(exec_result) + 1, Len(r.st.out))])
    /\ IF r.ok
       THEN /\ ip' = ip + 1
            /\ pc' = "exec"
            /\ outcome' = outcome
       ELSE /\ ip' = ip
            /\ pc' = "done"
            /\ outcome' = Failed("exec", ip, r.err)

\* exec() runs the statement at source line ip.
ExecStatement ==
    /\ pc = "exec"
    /\ ip <= Len(python_code)
    /\ Stepped(ExecLine(python_code[ip], exec_ns,
                        [ms |-> machine_state, out |-> exec_result,
                         app |-> settings]))
    /\ UNCHANGED << settings, pool, xgc_content, val_precision, python_code,
                    loop >>

\* exec() has run the whole program: python_to_gcode returns exec_result,
\* and xgc_to_gcode returns it rounded.
Finish ==
    /\ pc = "exec"
    /\ ip > Len(python_code)
    /\ outcome' = Rounded(round_gcode(exec_result, val_precision))
    /\ pc' = "done"
    /\ UNCHANGED << machine_state, exec_result, exec_ns, settings, pool,
                    xgc_content, val_precision, python_code, ip, trace, loop >>

Next == Compile \/ Translate \/ ExecStatement \/ Finish

\* One compilation, started from the initial state.
NextFresh == CompileFresh \/ Translate \/ ExecStatement \/ Finish

Spec == Init /\ [][Next]_vars

SpecModal == InitModal /\ [][Next]_vars

SpecCycle == InitCycle /\ [][Next]_vars

SpecPolar == InitPolar /\ [][Next]_vars

SpecMotion == InitMotion /\ [][Next]_vars

SpecSpindle == InitSpindle /\ [][Next]_vars

SpecCoord == InitCoord /\ [][Next]_vars

SpecEntry == InitEntry /\ [][Next]_vars

SpecCommand == InitCommand /\ [][Next]_vars

SpecIndent == InitIndent /\ [][Next]_vars

SpecPolarFresh == InitPolar /\ [][NextFresh]_vars

(***************************************************************************)
(* Calls of frange alone.                                                  *)
(***************************************************************************)
\* The start and stop values and the steps of the calls: ints and floats
\* that are exact in binary, a step of zero, and the residue
\* 6.123233995736766e-17 as a step.
RangeEnds == { IntVal(1), FloatVal(1500), IntVal(3), IntVal(5) }

RangeSteps ==
    { IntVal(0), IntVal(1), IntVal(0 - 1), FloatVal(500), FloatVal(0 - 1500),
      TinyVal(0, 1), TinyVal(0, 0 - 1) }

\* The calls: the start, stop and step above, and two calls whose stop is a
\* thousandth or three past two million.
RangeCalls ==
    (RangeEnds \X RangeEnds \X RangeSteps)
    \cup { <<IntVal(2000000), FloatVal(2000000001), IntVal(1)>>,
           <<IntVal(2000000), FloatVal(2000000003), FloatVal(2)>> }

InitRange == Init0 /\ pool = {} /\ settings = "RS-274"

Others ==
    << machine_state, exec_result, exec_ns, settings, pool, pc, xgc_content,
       val_precision, python_code, ip, outcome, trace >>

\* frange(start, stop, step) is called.
CallFrange ==
    /\ loop.pc \in {"idle", "returned", "raised"}
    /\ \E a \in RangeCalls : loop' = frange(a[1], a[2], a[3])
    /\ UNCHANGED Others

\* One turn of the while loop.
FrangeTurn ==
    /\ loop.pc = "while"
    /\ Continues(loop)
    /\ loop' = Turn(loop)
    /\ UNCHANGED Others

\* The while loop ends: return result.
FrangeReturn ==
    /\ loop.pc = "while"
    /\ ~Continues(loop)
    /\ loop' = [loop EXCEPT !.pc = "returned"]
    /\ UNCHANGED Others

NextRange == CallFrange \/ FrangeTurn \/ FrangeReturn

SpecRange == InitRange /\ [][NextRange]_vars

\* The interpreter keeps running the call it is in.
SpecRangeFair == SpecRange /\ WF_vars(FrangeTurn) /\ WF_vars(FrangeReturn)

(***************************************************************************)
(* The script lines, the source lines generated from them, and the text    *)
(* the statements of the current compilation have emitted.                 *)
(***************************************************************************)
\* The lines the translator's loop counts: those of the normalized script.
NormalLines == splitlines(xgc_strip(xgc_content))

\* The number of source lines the translator appends for a script line.
LinesOf(line) == Len(TranslateLine(line).val)

\* The first and the last source line generated from normalized line k.
RECURSIVE PyStart(_)
PyStart(k) == IF k = 1 THEN 1 ELSE PyStart(k - 1) + LinesOf(NormalLines[k - 1])

PyEnd(k) == PyStart(k) + LinesOf(NormalLines[k]) - 1

\* The normalized line that source line p was generated from.
Origin(p) ==
    CHOOSE k \in 1..Len(NormalLines) : PyStart(k) <= p /\ p <= PyEnd(k)

\* The text the statements run so far have emitted, and the part of it
\* emitted by the statements generated from normalized line k.
TextsOf(entries) == join(<<>>, [i \in 1..Len(entries) |-> entries[i].text])

Emitted == TextsOf(trace)

EmittedBy(k) ==
    TextsOf(SelectSeq(trace, LAMBDA e : PyStart(k) <= e.ip /\ e.ip <= PyEnd(k)))

\* The compilation failed inside exec(), at the statement of source line ip.
FailedInExec == pc = "done" /\ outcome.status = "failed" /\ outcome.stage = "exec"

\* A source line that is the call of the function named fn.
IsCallTo(line, fn) == Kind(line) = "call" /\ Body(line)[1].fn = fn

\* A coordinate-only script line: every token is X or Y with a value.
CoordinateOnly(line) ==
    /\ split(line) # <<>>
    /\ \A i \in 1..Len(split(line)) :
          split(line)[i][1] \in {"X", "Y"} /\ Len(split(line)[i]) >= 2

\* The line gives both X and Y.
GivesXY(line) == {split(line)[i][1] : i \in 1..Len(split(line))} = {"X", "Y"}

\* The drilling canned-cycle mode is active.
DrillingActive == machine_state.canned_cycle.mode = "G81.1"

\* No canned-cycle mode is active: the mode is cleared (initially, and after
\* leave-cycle), or no cycle entry has run in this compilation.
NoCycleActive ==
    \/ machine_state.canned_cycle.mode = ""
    \/ \A i \in 1..Len(trace) :
          ~IsCallTo(python_code[trace[i].ip], <<"G", "8", "1", "_", "1">>)

(***************************************************************************)
(* Properties.                                                             *)
(***************************************************************************)
\* C1: at the start of every compilation every Machine State field holds
\* its initial value, whatever earlier compilations executed.
FreshStateAtStart == pc = "translate" => machine_state = machine_state0

\* C2: a compilation that fails returns no output text and runs no later
\* stage, and the output buffer and the returned text of a compilation hold
\* only the text its own statements emitted: nothing emitted before a
\* failure appears in this or a later compilation's result.
NoPartialOutput ==
    /\ outcome.status = "failed" => outcome.gcode = <<>> /\ pc = "done"
    /\ outcome.stage \in {"translate", "syntax"} => trace = <<>>
    /\ outcome.stage = "translate" => python_code = <<>>
    /\ pc = "exec" => exec_result = Emitted
    /\ outcome.status = "ok" =>
          outcome.gcode = round_gcode(Emitted, val_precision).val

\* A compilation failed in exec() after its statements had emitted text.
PartialOutputDiscarded == FailedInExec /\ Emitted # <<>>

\* C3: while the drilling cycle is active a coordinate-only line compiles
\* without error (and emits the cycle expansion at its coordinate).
CoordinateLineExpands ==
    (FailedInExec /\ DrillingActive) =>
        ~(CoordinateOnly(NormalLines[Origin(ip)]) /\ GivesXY(NormalLines[Origin(ip)]))

\* C4: the statement generated from a coordinate-only line, run while no
\* canned-cycle mode is active, ends the compilation with a failure of the
\* evaluation phase; it emits no text and changes no machine state.
CoordinateLineOutsideCycleFails ==
    [][ ( /\ pc = "exec"
          /\ ip <= Len(python_code)
          /\ CoordinateOnly(NormalLines[Origin(ip)])
          /\ NoCycleActive )
        => ( /\ pc' = "done"
             /\ outcome'.status = "failed"
             /\ outcome'.stage = "exec"
             /\ outcome'.reported = "exec"
             /\ exec_result' = exec_result
             /\ machine_state' = machine_state ) ]_vars

\* A coordinate-only line failed after leave-cycle had been executed (the
\* cycle context exists and the mode is cleared).
CoordinateLineFailedAfterLeave ==
    /\ FailedInExec
    /\ CoordinateOnly(NormalLines[Origin(ip)])
    /\ machine_state.canned_cycle.mode = ""
    /\ "parameters" \in DOMAIN machine_state.canned_cycle

\* The text of the moves and the dwell of the drilling cycle, for arguments
\* written as the tokens X, Y, Z, F, R, P.
Num(tok) == Str(ParseNumber(tok))

Rapid(X, Y) ==
    <<"G", "0", "0", " ", "X">> \o Num(X) \o <<" ", "Y">> \o Num(Y) \o <<NL>>

Plunge(Z, F) ==
    <<"G", "0", "1", " ", "Z">> \o Num(Z) \o <<" ", "F">> \o Num(F) \o <<NL>>

Retract(R) == <<"G", "0", "0", " ", "Z">> \o Num(R) \o <<NL>>

Dwell(P) ==
    <<"G", "0", "4", " ", "P">>
    \o Str(IF ParseNumber(P).m >= 0 THEN ParseNumber(P)
           ELSE MilliToSeconds(ParseNumber(P)))
    \o <<NL>>

RECURSIVE Repeat(_, _)
Repeat(n, text) == IF n <= 0 THEN <<>> ELSE text \o Repeat(n - 1, text)

\* One rapid move to (X, Y), then n times plunge, dwell iff P is given,
\* retract; n = L when L is given, 1 otherwise.
DrillExpansion(kw) ==
    Rapid(KwGet(kw, "X"), KwGet(kw, "Y"))
    \o Repeat(IF "L" \in KwNames(kw) THEN ParseNumber(KwGet(kw, "L")).m \div 1000 ELSE 1,
              Plunge(KwGet(kw, "Z"), KwGet(kw, "F"))
              \o (IF "P" \in KwNames(kw) THEN Dwell(KwGet(kw, "P")) ELSE <<>>)
              \o Retract(KwGet(kw, "R")))

\* A source line that is a drilling-cycle entry with Z, R, F, X, Y, and
\* nothing but L and P besides.
ValidDrillEntry(line) ==
    /\ IsCallTo(line, <<"G", "8", "1", "_", "1">>)
    /\ {"Z", "R", "F", "X", "Y"} \subseteq KwNames(Body(line)[1].kw)
    /\ KwNames(Body(line)[1].kw) \subseteq {"Z", "R", "F", "X", "Y", "L", "P"}

\* C5: every valid drilling-cycle entry that ran emitted exactly one rapid
\* move to (X, Y) and n repetitions of plunge, dwell iff P given, retract.
DrillEntryExpansion ==
    \A i \in 1..Len(trace) :
        ( /\ ValidDrillEntry(python_code[trace[i].ip])
          /\ ~(FailedInExec /\ i = Len(trace)) )
        => trace[i].text = DrillExpansion(Body(python_code[trace[i].ip])[1].kw)

\* The plane, unit, positioning and feedrate-mode codes, the Machine State
\* field each sets and the value it sets.
ModeCodes ==
    { <<"G", "1", "7">>, <<"G", "1", "8">>, <<"G", "1", "9">>,
      <<"G", "2", "0">>, <<"G", "2", "1">>, <<"G", "9", "0">>,
      <<"G", "9", "1">>, <<"G", "9", "3">>, <<"G", "9", "4">> }

ModeField(code) ==
    CASE code \in {<<"G", "1", "7">>, <<"G", "1", "8">>, <<"G", "1", "9">>} -> "arc_plane"
      [] code \in {<<"G", "2", "0">>, <<"G", "2", "1">>} -> "unit"
      [] code \in {<<"G", "9", "0">>, <<"G", "9", "1">>} -> "positioning"
      [] code \in {<<"G", "9", "3">>, <<"G", "9", "4">>} -> "feedrate_mode"

ModeValue(code) ==
    CASE code = <<"G", "1", "7">> -> "XY"
      [] code = <<"G", "1", "8">> -> "XZ"
      [] code = <<"G", "1", "9">> -> "YZ"
      [] code = <<"G", "2", "0">> -> "in"
      [] code = <<"G", "2", "1">> -> "mm"
      [] code = <<"G", "9", "0">> -> "absolute"
      [] code = <<"G", "9", "1">> -> "incremental"
      [] code = <<"G", "9", "3">> -> "inverse"
      [] code = <<"G", "9", "4">> -> "normal"

ModeLine(line) == split(line) # <<>> /\ Range(split(line)) \subseteq ModeCodes

\* Token i is the last code of its group among the tokens.
LastOfGroup(tokens, i) ==
    \A j \in (i + 1)..Len(tokens) : ModeField(tokens[j]) # ModeField(tokens[i])

\* The fields hold what the last code of each group of the line sets.
ModesSet(tokens) ==
    \A i \in 1..Len(tokens) :
        LastOfGroup(tokens, i) => machine_state[ModeField(tokens[i])] = ModeValue(tokens[i])

\* C6: a line of plane, unit, positioning and feedrate-mode codes compiles
\* to those codes in script order, separated by single spaces and ended by
\* one newline, and when its last statement has run each field holds the
\* value set by the last code of its group.
ModeLineCompiles ==
    /\ FailedInExec => ~ModeLine(NormalLines[Origin(ip)])
    /\ outcome.stage = "translate" => ~ModeLine(NormalLines[outcome.err.tags[1]])
    /\ \A k \in 1..Len(NormalLines) :
          (ModeLine(NormalLines[k]) /\ Len(trace) >= PyEnd(k)) =>
             /\ EmittedBy(k) = join(<<" ">>, split(NormalLines[k])) \o <<NL>>
             /\ Len(trace) = PyEnd(k) => ModesSet(split(NormalLines[k]))

\* The last statement of a mode line with two codes of one group has run
\* and left a state other than the initial one.
ModeLineWithRepeatedGroupDone ==
    /\ pc = "exec"
    /\ machine_state # machine_state0
    /\ \E k \in 1..Len(NormalLines) :
          /\ ModeLine(NormalLines[k])
          /\ Len(trace) = PyEnd(k)
          /\ \E i \in 1..Len(split(NormalLines[k])) :
                ~LastOfGroup(split(NormalLines[k]), i)

\* C7: a program-end command compiles successfully: no compilation fails at
\* the statement generated from M30.
ProgramEndCompiles ==
    FailedInExec => ~IsCallTo(python_code[ip], <<"M", "3", "0">>)

\* C8: when evaluation fails at a statement generated from normalized line
\* k, the line number reported is k.
EvaluationFailureLine == FailedInExec => outcome.line = Origin(ip)

\* C9: when the first line whose translation fails is normalized line k,
\* the error raised is that line's error with the line number k attached
\* once and nothing else changed, no intermediate program is returned and
\* nothing is executed.
TranslationFailureTagged ==
    pc \in {"exec", "done"} =>
        \A k \in 1..Len(NormalLines) :
            ( /\ ~TranslateLine(NormalLines[k]).ok
              /\ \A j \in 1..(k - 1) : TranslateLine(NormalLines[j]).ok )
            => /\ outcome.stage = "translate"
               /\ outcome.err = [TranslateLine(NormalLines[k]).err EXCEPT !.tags = <<k>>]
               /\ python_code = <<>>
               /\ trace = <<>>

\* A translation failed at normalized line 1, which is the second line of
\* the script as written (a comment line precedes it).
TranslationFailedAfterComment ==
    /\ pc = "done"
    /\ outcome.stage = "translate"
    /\ outcome.err.tags = <<1>>
    /\ Head(xgc_content) = ";"
    /\ Len(SplitOn(xgc_content, NL)) = 2

\* A line of the translator's default branch: a command code and at least
\* one more token.
ParameterizedLine(line) ==
    /\ Len(split(line)) >= 2
    /\ split(line)[1][1] \in {"G", "M"}
    /\ ~_is_variable_declaration(strip(line))
    /\ ~(Range(split(line)) \subseteq paramaterless_commands)

\* A parameter token <Letter><value>.
WellFormedParam(tok) == Len(tok) >= 2 /\ tok[1] \in Upper

\* C10: a parameterized command line with a parameter token that is not
\* <Letter><value> fails in the translate phase: no translation that
\* succeeded holds such a line.
MalformedTokenRejected ==
    pc = "exec" =>
        \A k \in 1..Len(NormalLines) :
            ParameterizedLine(NormalLines[k]) =>
                \A i \in 2..Len(split(NormalLines[k])) :
                    WellFormedParam(split(NormalLines[k])[i])

\* C11: normalization is idempotent: normalizing the normalized text of the
\* script gives that text again.
NormalizationIdempotent ==
    xgc_strip(xgc_strip(xgc_content)) = xgc_strip(xgc_content)

\* The direction from start to stop of the call, and the sign of its step.
StepZero == IsZero(loop.step)

StepOpposite ==
    \/ Less(IntVal(0), loop.step) /\ Less(loop.stop, loop.start)
    \/ Less(loop.step, IntVal(0)) /\ Less(loop.start, loop.stop)

StepMatches ==
    \/ Less(IntVal(0), loop.step) /\ Less(loop.start, loop.stop)
    \/ Less(loop.step, IntVal(0)) /\ Less(loop.stop, loop.start)

FrangeTerminates == (loop.pc = "while") ~> (loop.pc \in {"returned", "raised"})

\* The number of values start + k * step (k = 0, 1, ...) that lie strictly
\* before stop in the direction of step, for a step of whole thousandths.
CountBefore(start, stop, step) ==
    (Abs(stop.m - start.m) + Abs(step.m) - 1) \div Abs(step.m)

\* C14: a call of frange that returns gives exactly the values start,
\* start + step, start + 2 * step, ... that lie strictly before stop.
RangeElementsExact ==
    (loop.pc = "returned" /\ loop.step.m # 0) =>
        /\ Len(loop.result) = CountBefore(loop.start, loop.stop, loop.step)
        /\ \A k \in 1..Len(loop.result) :
              /\ loop.result[k].m = loop.start.m + (k - 1) * loop.step.m
              /\ loop.result[k].tiny = 0

\* The statement exec() is about to run is a call of the handler named fn,
\* bound under its own name, with keyword arguments only.
AboutToCall(fn) ==
    /\ pc = "exec"
    /\ ip <= Len(python_code)
    /\ IsCallTo(python_code[ip], fn)
    /\ fn \in DOMAIN exec_ns
    /\ exec_ns[fn] = FuncVal(fn)
    /\ Body(python_code[ip])[1].pos = <<>>

\* The keyword arguments of that statement, as written, and their letters.
ArgsGiven == Body(python_code[ip])[1].kw

LettersGiven == KwNames(ArgsGiven)

\* The statement that ran failed, and left the output and the state alone.
FailedUntouched ==
    /\ pc' = "done"
    /\ outcome'.status = "failed"
    /\ outcome'.stage = "exec"
    /\ exec_result' = exec_result
    /\ machine_state' = machine_state

LinearCodes == { <<"G", "0", "0">>, <<"G", "0", "1">> }

LinearLetters(code) ==
    IF code = <<"G", "0", "0">> THEN {"X", "Y", "Z", "A", "B", "C"}
    ELSE {"X", "Y", "Z", "A", "B", "C", "F"}

\* cos and sin of a whole multiple of 90 degrees, times 1000.
CosExact(theta) ==
    CASE (theta.m \div 90000) % 4 = 0 -> 1000
      [] (theta.m \div 90000) % 4 = 1 -> 0
      [] (theta.m \div 90000) % 4 = 2 -> 0 - 1000
      [] (theta.m \div 90000) % 4 = 3 -> 0

SinExact(theta) ==
    CASE (theta.m \div 90000) % 4 = 0 -> 0
      [] (theta.m \div 90000) % 4 = 1 -> 1000
      [] (theta.m \div 90000) % 4 = 2 -> 0
      [] (theta.m \div 90000) % 4 = 3 -> 0 - 1000

\* The texts a float of m thousandths, within floating tolerance, is
\* written as: the value itself, or for zero a residue of either sign in
\* exponent notation.
FloatTexts(m) ==
    {Str(FloatVal(m))}
    \cup (IF m # 0 THEN {}
          ELSE {ResidueText(k) : k \in {1, 2, 3, 4, 10, 20}}
               \cup {<<"-">> \o ResidueText(k) : k \in {1, 2, 3, 4, 10, 20}})

\* The line of a linear move with the arguments given, X and Y written as
\* xt and yt and every other argument with its given value.
MoveLine(code, kw, xt, yt) ==
    code \o <<" ">>
    \o join(<<" ">>, [i \in 1..Len(kw) |->
           <<kw[i].k>> \o (IF kw[i].k = "X" THEN xt
                           ELSE IF kw[i].k = "Y" THEN yt
                           ELSE Num(kw[i].v))])
    \o <<NL>>

PolarX == machine_state.polar_mode.cx.m
            + (ParseNumber(KwGet(ArgsGiven, "X")).m
               * CosExact(ParseNumber(KwGet(ArgsGiven, "Y")))) \div 1000

PolarY == machine_state.polar_mode.cy.m
            + (ParseNumber(KwGet(ArgsGiven, "X")).m
               * SinExact(ParseNumber(KwGet(ArgsGiven, "Y")))) \div 1000

\* C15: in polar mode with origin (cx, cy), a G00 or G01 call that carries
\* X = r and Y = theta emits X = cx + r * cos(theta) and Y = cy + r *
\* sin(theta) in their places, and every other parameter with its given
\* value in the given order.
PolarMoveConverted ==
    [][ \A code \in LinearCodes :
          ( /\ AboutToCall(code)
            /\ machine_state.polar_mode.enabled
            /\ {"X", "Y"} \subseteq LettersGiven
            /\ LettersGiven \subseteq LinearLetters(code) )
          => \E xt \in FloatTexts(PolarX), yt \in FloatTexts(PolarY) :
                exec_result' = exec_result \o MoveLine(code, ArgsGiven, xt, yt)
      ]_vars

\* A linear move with X and Y has run in polar mode and emitted coordinates
\* other than the radius and angle given.
PolarMoveEmitted ==
    /\ pc = "exec"
    /\ trace # <<>>
    /\ machine_state.polar_mode.enabled
    /\ \E code \in LinearCodes :
          /\ IsCallTo(python_code[trace[Len(trace)].ip], code)
          /\ {"X", "Y"} \subseteq KwNames(Body(python_code[trace[Len(trace)].ip])[1].kw)
          /\ trace[Len(trace)].text # <<>>
          /\ trace[Len(trace)].text #
                GcodeLine(code, [i \in 1..Len(Body(python_code[trace[Len(trace)].ip])[1].kw) |->
                    KwArg(Body(python_code[trace[Len(trace)].ip])[1].kw[i].k,
                          ParseNumber(Body(python_code[trace[Len(trace)].ip])[1].kw[i].v))])

\* C16: in polar mode a G00 or G01 call that carries exactly one of X and Y
\* fails with an error that names the missing letter and appends nothing; a
\* call that carries neither is emitted with its parameters unchanged.
PolarPairRequired ==
    [][ \A code \in LinearCodes :
          ( /\ AboutToCall(code)
            /\ machine_state.polar_mode.enabled
            /\ LettersGiven \subseteq LinearLetters(code) )
          => /\ (LettersGiven \cap {"X", "Y"} = {"X"}) =>
                    FailedUntouched /\ outcome'.err.names = {"Y"}
             /\ (LettersGiven \cap {"X", "Y"} = {"Y"}) =>
                    FailedUntouched /\ outcome'.err.names = {"X"}
             /\ (LettersGiven \cap {"X", "Y"} = {}) =>
                    /\ pc' = "exec"
                    /\ exec_result' = exec_result \o MoveLine(code, ArgsGiven, <<>>, <<>>)
      ]_vars

\* A move with the angle only has failed in polar mode, for want of X.
PolarMoveWithoutRadiusFailed ==
    /\ FailedInExec
    /\ machine_state.polar_mode.enabled
    /\ IsCallTo(python_code[ip], <<"G", "0", "0">>)
    /\ outcome.err.names = {"X"}

\* A number in fixed-point notation with exactly prec digits after the
\* decimal point (no point when prec is 0).
IsFixedPoint(num, prec) ==
    LET body == IF num # <<>> /\ num[1] = "-" THEN Tail(num) ELSE num
        dot  == Find(body, {"."})
    IN  IF prec = 0
        THEN body # <<>> /\ \A i \in 1..Len(body) : body[i] \in Digit
        ELSE /\ dot > 1
             /\ Len(body) = dot + prec
             /\ \A i \in 1..Len(body) : i # dot => body[i] \in Digit

\* The tokens of the text returned to the host.
OutputTokens ==
    UNION { Range(split(splitlines(outcome.gcode)[i])) :
              i \in 1..Len(splitlines(outcome.gcode)) }

\* C18: after the rounding pass every X, Y or Z token of the output is in
\* fixed-point notation with exactly the positional number of digits after
\* the decimal point and every A, B or C token with exactly the angular
\* number, whatever the notation of the raw value; none holds an exponent.
RoundedTokensFixedPoint ==
    (outcome.status = "ok" /\ Len(val_precision) = 2) =>
        \A tok \in OutputTokens :
            /\ tok[1] \in {"X", "Y", "Z"} => IsFixedPoint(Tail(tok), val_precision[1])
            /\ tok[1] \in {"A", "B", "C"} => IsFixedPoint(Tail(tok), val_precision[2])

\* The handlers that check their parameter letters against an allow-list,
\* and the list of each.
CheckedHandlers ==
    { <<"G", "0", "0">>, <<"G", "0", "1">>, <<"G", "0", "2">>, <<"G", "0", "3">>,
      <<"G", "8", "1", "_", "1">> }

AllowList(fn) ==
    CASE fn = <<"G", "0", "0">> -> {"X", "Y", "Z", "A", "B", "C"}
      [] fn = <<"G", "0", "1">> -> {"X", "Y", "Z", "A", "B", "C", "F"}
      [] fn \in {<<"G", "0", "2">>, <<"G", "0", "3">>} ->
            {"X", "Y", "Z", "I", "J", "K", "R", "F"}
      [] fn = <<"G", "8", "1", "_", "1">> ->
            {"Z", "R", "F", "X", "Y", "L", "P", "D", "A"}

\* C17: G00, G01, G02, G03 or the drilling-cycle entry called with a
\* parameter letter outside its allow-list fails with an error that names
\* exactly the illegal letters, appends nothing to the output buffer and
\* changes no Machine State field.
IllegalLettersRejected ==
    [][ \A fn \in CheckedHandlers :
          (AboutToCall(fn) /\ ~(LettersGiven \subseteq AllowList(fn)))
          => /\ FailedUntouched
             /\ outcome'.err.type = "ValueError"
             /\ outcome'.err.names = LettersGiven \ AllowList(fn)
      ]_vars

\* A cycle entry with the illegal letter Q has failed while the cycle of an
\* earlier entry is active and the buffer holds text.
IllegalCycleEntryFailed ==
    /\ FailedInExec
    /\ IsCallTo(python_code[ip], <<"G", "8", "1", "_", "1">>)
    /\ outcome.err.names = {"Q"}
    /\ DrillingActive
    /\ exec_result # <<>>

\* The value of the argument S of the M03 call about to run.
SpeedGiven == Eval(KwGet(ArgsGiven, "S"), exec_ns)

\* C19: M03 called with an integer S (an int of Python, which a bool is)
\* sets the spindle state to on, stores S as the rpm and emits M03 S<S> on
\* its own line; called with a value that is not an integer it fails with a
\* type error, emits nothing and leaves the spindle state and the rpm
\* unchanged.
SpindleStartChecked ==
    [][ ( /\ AboutToCall(<<"M", "0", "3">>)
          /\ LettersGiven = {"S"}
          /\ Len(ArgsGiven) = 1
          /\ SpeedGiven.ok )
        => IF SpeedGiven.val.ty \in {"int", "bool"}
           THEN /\ pc' = "exec"
                /\ machine_state' =
                      [machine_state EXCEPT !.spindle_state = "on",
                                            !.spindle_rpm = SpeedGiven.val]
                /\ exec_result' = exec_result \o <<"M", "0", "3", " ", "S">>
                                     \o Str(SpeedGiven.val) \o <<NL>>
           ELSE /\ FailedUntouched
                /\ outcome'.err.type = "TypeError"
      ]_vars

\* A spindle start with a value that is not an integer has been refused
\* while the spindle is on with the rpm of an earlier start.
SpindleStartRefused ==
    /\ FailedInExec
    /\ IsCallTo(python_code[ip], <<"M", "0", "3">>)
    /\ exec_ns[<<"M", "0", "3">>] = FuncVal(<<"M", "0", "3">>)
    /\ outcome.err.type = "TypeError"
    /\ machine_state.spindle_state = "on"
    /\ machine_state.spindle_rpm = IntVal(1000)

\* C20: the result of a compilation depends only on its script and options:
\* it is the result the same script and options give in a process that has
\* compiled nothing before.
SameScriptSameResult ==
    pc = "done" =>
        outcome = xgc_to_gcode(xgc_content, val_precision, exec_ns0,
                               [ms |-> machine_state0, out |-> <<>>,
                                app |-> settings])

\* The translator returned a program for the script of this compilation.
TranslationDone == pc \in {"exec", "done"} /\ outcome.stage # "translate"

\* The leading letters of the tokens of a script line.
KeysOf(line) == {split(line)[i][1] : i \in 1..Len(split(line))}

\* The translator passes the line through as Python source.
Passthrough(line) ==
    strip(line)[1] \in Lower \/ _is_variable_declaration(strip(line))

\* A coordinate line: not passed through, and the leading letters of its
\* tokens are exactly {X, Y}, {X} or {Y}.
CoordinateLine(line) ==
    /\ ~Passthrough(line)
    /\ KeysOf(line) \in { {"X", "Y"}, {"X"}, {"Y"} }

\* The source line is the line's leading whitespace and one call of
\* canned_cycle that gives each axis of the line once, with the value of a
\* token of that axis.
CanonicalCall(source, line) ==
    /\ Len(Body(source)) = 1
    /\ Body(source)[1].t = "call"
    /\ Body(source)[1].fn = <<"c","a","n","n","e","d","_","c","y","c","l","e">>
    /\ Body(source)[1].pos = <<>>
    /\ Len(Body(source)[1].kw) = Cardinality(KeysOf(line))
    /\ KwNames(Body(source)[1].kw) = KeysOf(line)
    /\ \A i \in 1..Len(Body(source)[1].kw) :
          \E j \in 1..Len(split(line)) :
             split(line)[j] = <<Body(source)[1].kw[i].k>> \o Body(source)[1].kw[i].v
    /\ source = Lit(LeadingSpace(line)) \o Body(source)

\* C21: every coordinate line is rewritten into exactly one canonical
\* canned-cycle call that carries each axis present on the line exactly
\* once as a named argument, whatever the order and the number of its
\* tokens, behind the line's leading whitespace.
CoordinateLineCanonical ==
    TranslationDone =>
        \A k \in 1..Len(NormalLines) :
            CoordinateLine(NormalLines[k]) =>
                /\ LinesOf(NormalLines[k]) = 1
                /\ CanonicalCall(python_code[PyStart(k)], NormalLines[k])

\* The letters a drilling-cycle entry requires and those it takes.
RequiredLetters == {"Z", "R", "F", "X", "Y"}

EntryLetters == RequiredLetters \cup {"L", "P", "D", "A"}

\* The statement exec() is about to run is a drilling-cycle entry whose
\* arguments evaluate.
AboutToEnterCycle ==
    /\ AboutToCall(<<"G", "8", "1", "_", "1">>)
    /\ EvalKw(ArgsGiven, exec_ns).ok

\* The entry fails for a requirement: required letters are missing, or
\* exactly one of D and A is given.
EntryRejected ==
    IF RequiredLetters \ LettersGiven # {}
    THEN /\ FailedUntouched
         /\ outcome'.err.names = RequiredLetters \ LettersGiven
    ELSE (("D" \in LettersGiven) # ("A" \in LettersGiven)) => FailedUntouched

\* C22: a drilling-cycle entry that lacks any of Z, R, F, X, Y fails with
\* an error naming exactly the missing letters, and an entry that gives
\* exactly one of D and A fails; the canned-cycle mode and the cycle context
\* keep their values and nothing is emitted.
DrillEntryRequirementsChecked ==
    [][ AboutToEnterCycle => EntryRejected ]_vars

\* C22, for entries whose letters are all in the allow-list: an entry that
\* lacks any of Z, R, F, X, Y fails with an error naming exactly the missing
\* letters, and one that gives exactly one of D and A fails; the mode and
\* the context keep their values and nothing is emitted.
LegalDrillEntryRequirementsChecked ==
    [][ (AboutToEnterCycle /\ LettersGiven \subseteq EntryLetters)
        => EntryRejected ]_vars

\* An entry without F has been refused while the drilling cycle of an
\* earlier entry is active, with its context.
DrillEntryWithoutFeedRefused ==
    /\ FailedInExec
    /\ IsCallTo(python_code[ip], <<"G", "8", "1", "_", "1">>)
    /\ outcome.err.names = {"F"}
    /\ machine_state.canned_cycle.mode = "G81.1"
    /\ KwNames(machine_state.canned_cycle.parameters) = {"Z", "R", "F", "D", "A"}

\* The source lines before line p that switch polar mode, and the last one.
SwitchesBefore(p) ==
    {q \in 1..(p - 1) : \/ IsCallTo(python_code[q], <<"G", "1", "6">>)
                        \/ IsCallTo(python_code[q], <<"G", "1", "5">>)}

LastSwitch(p) == CHOOSE q \in SwitchesBefore(p) : \A o \in SwitchesBefore(p) : o <= q

\* A polar-enter statement ran before line p and no polar-leave since.
PolarEnteredBefore(p) ==
    /\ SwitchesBefore(p) # {}
    /\ IsCallTo(python_code[LastSwitch(p)], <<"G", "1", "6">>)

\* The origin given to the most recent polar-enter before line p.
OriginGiven(p, axis) ==
    ParseNumber(KwGet(Body(python_code[LastSwitch(p)])[1].kw, axis))

\* The radius and angle of the move about the origin (cx, cy), in
\* thousandths.
AboutX(cx) ==
    cx.m + (ParseNumber(KwGet(ArgsGiven, "X")).m
            * CosExact(ParseNumber(KwGet(ArgsGiven, "Y")))) \div 1000

AboutY(cy) ==
    cy.m + (ParseNumber(KwGet(ArgsGiven, "X")).m
            * SinExact(ParseNumber(KwGet(ArgsGiven, "Y")))) \div 1000

\* The statement exec() is about to run is a polar-enter or a polar-leave.
AboutToSwitchPolar ==
    /\ pc = "exec"
    /\ ip <= Len(python_code)
    /\ \/ IsCallTo(python_code[ip], <<"G", "1", "6">>)
       \/ IsCallTo(python_code[ip], <<"G", "1", "5">>)

\* C23: in a compilation started from the initial Machine State, a G00 or
\* G01 call with X and Y is converted from polar coordinates if and only if
\* a G16 ran earlier and no G15 has run since, about the origin given to the
\* most recent G16; G15 and G16 append nothing to the output.
PolarModeFollowsSwitches ==
    [][ /\ \A code \in LinearCodes :
              ( /\ AboutToCall(code)
                /\ {"X", "Y"} \subseteq LettersGiven
                /\ LettersGiven \subseteq LinearLetters(code) )
              => IF PolarEnteredBefore(ip)
                 THEN \E xt \in FloatTexts(AboutX(OriginGiven(ip, "X"))),
                         yt \in FloatTexts(AboutY(OriginGiven(ip, "Y"))) :
                         exec_result' = exec_result \o MoveLine(code, ArgsGiven, xt, yt)
                 ELSE exec_result' = exec_result
                         \o MoveLine(code, ArgsGiven, Num(KwGet(ArgsGiven, "X")),
                                     Num(KwGet(ArgsGiven, "Y")))
        /\ AboutToSwitchPolar => exec_result' = exec_result
      ]_vars

\* A move with X and Y has been emitted as written, after a polar-enter and
\* then a polar-leave in the same compilation.
MoveUnconvertedAfterLeave ==
    /\ pc = "exec"
    /\ ip = 4
    /\ IsCallTo(python_code[1], <<"G", "1", "6">>)
    /\ IsCallTo(python_code[2], <<"G", "1", "5">>)
    /\ IsCallTo(python_code[3], <<"G", "0", "1">>)
    /\ trace[3].text = <<"G", "0", "1", " ", "X", "1", "0", " ", "Y", "9", "0",
                         " ", "F", "1", "0", "0", NL>>

\* The statement exec() is about to run is a call of the handler named fn,
\* bound under its own name.
AboutToRun(fn) ==
    /\ pc = "exec"
    /\ ip <= Len(python_code)
    /\ IsCallTo(python_code[ip], fn)
    /\ fn \in DOMAIN exec_ns
    /\ exec_ns[fn] = FuncVal(fn)

\* The motion, arc and dwell handlers.
FrameHandlers ==
    { <<"G", "0", "0">>, <<"G", "0", "1">>, <<"G", "0", "2">>,
      <<"G", "0", "3">>, <<"G", "0", "4">> }

\* C24: each mode-setting command changes only the Machine State field it
\* owns; the motion, arc and dwell handlers change no field; no handler
\* adds a field to the Machine State or removes one.
FrameKept ==
    [][ \A fn \in NsFunctions :
          AboutToRun(fn) =>
             /\ DOMAIN machine_state' = DOMAIN machine_state
             /\ fn \in ModeCodes =>
                   \A f \in DOMAIN machine_state \ {ModeField(fn)} :
                       machine_state'[f] = machine_state[f]
             /\ fn \in FrameHandlers => machine_state' = machine_state
      ]_vars

\* The commands that take no parameter.
ParameterlessCodes == paramaterless_commands \cup { <<"G", "8", "0">> }

\* The last statement that ran is the last one generated from a script line
\* of parameterless commands: the whole line has been executed.
ParameterlessLineDone ==
    /\ TranslationDone
    /\ pc = "exec"
    /\ ip > 1
    /\ Range(split(NormalLines[Origin(ip - 1)])) \subseteq ParameterlessCodes
    /\ ip - 1 = PyEnd(Origin(ip - 1))

\* C25: after a parameterless command line has been executed, whichever
\* parameterless commands it holds and in whatever order, the output buffer
\* is empty or ends with a newline.
OutputLineClosed ==
    ParameterlessLineDone =>
        \/ exec_result = <<>>
        \/ exec_result[Len(exec_result)] = NL

\* The dwell styles G04 has a case for.
RecognizedStyles == { "RS-274" }

\* C27: a dwell command executed while the configured dwell style is not a
\* recognized style fails with an error; it never completes normally having
\* emitted nothing.
DwellStyleChecked ==
    [][ ( /\ AboutToCall(<<"G", "0", "4">>)
          /\ LettersGiven = {"P"}
          /\ EvalKw(ArgsGiven, exec_ns).ok
          /\ settings \notin RecognizedStyles )
        => /\ pc' = "done"
           /\ outcome'.status = "failed"
           /\ outcome'.stage = "exec"
      ]_vars

\* The context the coordinate dispatch reads exists.
ContextExists == "parameters" \in DOMAIN machine_state.canned_cycle

\* C28: between two handler calls the canned-cycle mode and context agree:
\* in the drilling cycle the context holds Z, R and F and neither X nor Y;
\* when no cycle mode is active (initially and after leave-cycle) the
\* context that the coordinate dispatch reads exists and is empty.
CycleStateAgrees ==
    /\ machine_state.canned_cycle.mode = "G81.1" =>
          /\ ContextExists
          /\ {"Z", "R", "F"} \subseteq KwNames(machine_state.canned_cycle.parameters)
          /\ KwNames(machine_state.canned_cycle.parameters) \cap {"X", "Y"} = {}
    /\ machine_state.canned_cycle.mode = "" =>
          /\ ContextExists
          /\ machine_state.canned_cycle.parameters = <<>>

\* C29: whenever the spindle state is off the stored spindle rpm is 0; so
\* it is after a spindle stop that follows a spindle start.
SpindleFieldsAgree ==
    machine_state.spindle_state = "off" =>
        machine_state.spindle_rpm = IntVal(0)

\* The call of frange under way or finished has start equal to stop and a
\* nonzero step.
EmptyRangeCalled ==
    /\ loop.pc # "idle"
    /\ ~Less(loop.start, loop.stop)
    /\ ~Less(loop.stop, loop.start)
    /\ ~IsZero(loop.step)

\* C30: frange(start, stop, step) with start equal to stop and step nonzero
\* returns the empty sequence without failing.
EmptyRangeReturned ==
    EmptyRangeCalled =>
        /\ loop.pc # "raised"
        /\ loop.pc = "returned" => loop.result = <<>>

\* A script line of parameterless commands, as the translator takes it.
ParameterlessLine(line) ==
    /\ ~Passthrough(line)
    /\ ~CoordinateLine(line)
    /\ Range(split(line)) \subseteq paramaterless_commands

\* C26: translating a parameterless command line keeps the line's leading
\* whitespace on every call generated from it (so that a command written in
\* a loop body stays in the loop body).
LeadingSpaceKept ==
    TranslationDone =>
        \A k \in 1..Len(NormalLines) :
            ParameterlessLine(NormalLines[k]) =>
                \A p \in PyStart(k)..PyEnd(k) :
                    Indent(python_code[p]) = LeadingSpace(NormalLines[k])

====
